---- MODULE Spec2Model ----
(***************************************************************************)
(* State-machine model of the webhook trade executor: app.py (webhook,     *)
(* open_position, fill observer, 2-bar force-exit worker, exit handlers,   *)
(* finalize_trade) and trade_notifier.py (ledger `trades`, notifier,       *)
(* monitor_2bar_exit, perform_exit).                                       *)
(*                                                                         *)
(* Time is counted in minutes (one tick of `now` = 60 s).  A thread is a   *)
(* slot of `th`; its `pc` names the next statement block it executes.  A   *)
(* step is one exchange request (or the end of a sleep) together with the  *)
(* local statements and critical sections on trades_lock that follow it,   *)
(* up to the next exchange request or sleep.                               *)
(***************************************************************************)
EXTENDS Integers, Sequences, FiniteSets, TLC

VARIABLES
    now,              \* time.time(), in minutes
    trades,           \* trade_notifier.trades: insertion-ordered dict key -> dict
    notified_orders,  \* trade_notifier.notified_orders
    orders,           \* orders living on the exchange; the order id is the index
    pos,              \* exchange position of the symbol (signed positionAmt)
    th,               \* threads: webhook request, fill observers, timers, finalizers
    mon,              \* the monitor_2bar_exit thread
    alerts,           \* number of webhook requests received so far
    script,           \* the alerts still to arrive, in order (the input)
    sent,             \* telegram messages sent, in order
    useBar,           \* config.USE_BAR_HIGH_LOW_FOR_EXIT
    hist              \* history of observations (not program state): the entry fills
                      \* observed, who closes the open position, the closes finalized,
                      \* the ledger as the request being handled found it (kept
                      \* until the request goes on to place an order), whether
                      \* the payload of that request is malformed, the entry
                      \* orders whose position a force-exit worker has evaluated

vars == <<now, trades, notified_orders, orders, pos, th, mon, alerts, script, sent, useBar, hist>>

----------------------------------------------------------------------------
(* Bounds of the model *)
MaxAlerts == 3
MaxOrders == 3
MaxTime == 3
MaxPex == 1
MaxCalls == 3
MaxEntries == 2
MaxWorkers == 2

(* Program constants *)
MAX_ACTIVE_TRADES == 5
EntryQty == 2

Symbol == "BTCUSDT"
Intervals == {"1m", "3m"}
Comments == {"BUY_ENTRY", "EXIT_LONG", "CROSS_EXIT_LONG", "HELLO"}

----------------------------------------------------------------------------
(* Python dict helpers.  A dict is a function whose DOMAIN is its key set. *)
EmptyDict == [f \in {} |-> 0]

DGet(d, f, dflt) == IF f \in DOMAIN d THEN d[f] ELSE dflt

DSet(d, f, v) == [x \in (DOMAIN d) \cup {f} |-> IF x = f THEN v ELSE d[x]]

DUpdate(d, e) == [x \in (DOMAIN d) \cup (DOMAIN e) |-> IF x \in DOMAIN e THEN e[x] ELSE d[x]]

(* The ledger: a sequence of [key, val] in insertion order. *)
Has(tr, k) == \E i \in 1..Len(tr) : tr[i].key = k

Idx(tr, k) == CHOOSE i \in 1..Len(tr) : tr[i].key = k

Get(tr, k) == IF Has(tr, k) THEN tr[Idx(tr, k)].val ELSE EmptyDict

Put(tr, k, d) ==
    IF Has(tr, k) THEN [tr EXCEPT ![Idx(tr, k)].val = d]
    ELSE Append(tr, [key |-> k, val |-> d])

(* variant: the key stays in the ledger *)
PopNone(tr, k) == tr

(* trades.pop(k, None) *)
Pop(tr, k) == SelectSeq(tr, LAMBDA e : e.key # k)

(* Python truthiness of a dict: {} is falsy. *)
Truthy(d) == DOMAIN d # {}

(* trades.get(key) or trades.get(symbol) *)
GetOr(tr, k1, k2) == IF Truthy(Get(tr, k1)) THEN Get(tr, k1) ELSE Get(tr, k2)

(* Keys: f"{symbol}_{interval}" is [sym, iv]; the plain symbol key has iv "". *)
trade_key(symbol, interval) == [sym |-> symbol, iv |-> interval]

SymKey(symbol) == [sym |-> symbol, iv |-> ""]

(* k.startswith(f"{symbol}_") *)
StartsWithSym(k, symbol) == k.sym = symbol /\ k.iv # ""

(* k.startswith(f"{symbol}_") or k == symbol *)
BelongsTo(k, symbol) == k.sym = symbol

(* first key k with k.startswith(symbol_): k.split("_", 1)[1], else dflt *)
FoundInterval(tr, symbol, dflt) ==
    IF \E i \in 1..Len(tr) : StartsWithSym(tr[i].key, symbol)
    THEN LET i == CHOOSE j \in 1..Len(tr) :
                    /\ StartsWithSym(tr[j].key, symbol)
                    /\ \A m \in 1..(j-1) : ~StartsWithSym(tr[m].key, symbol)
         IN tr[i].key.iv
    ELSE dflt

(* variant: only the interval keys are removed, the plain symbol key stays *)
reset_interval_keys(tr, symbol) == SelectSeq(tr, LAMBDA e : ~StartsWithSym(e.key, symbol))

(* keys_to_remove = [k for k in trades if k.startswith(f"{symbol}_") or k == symbol] *)
reset_2bar_state(tr, symbol) == SelectSeq(tr, LAMBDA e : ~BelongsTo(e.key, symbol))

(* interval_to_seconds, in minutes; unknown intervals count as one minute *)
interval_to_seconds(iv) ==
    CASE iv = "1m" -> 1 [] iv = "3m" -> 3 [] iv = "5m" -> 5 [] OTHER -> 1

----------------------------------------------------------------------------
(* Python call binding: positional arguments fill the parameters in order,  *)
(* then keywords; a keyword naming a parameter already filled, an unknown   *)
(* keyword, too many positionals or a required parameter left unfilled      *)
(* raises TypeError before the body runs.                                   *)
Range(s) == {s[i] : i \in 1..Len(s)}

CallRaises(params, nreq, npos, kw) ==
    \/ npos > Len(params)
    \/ \E i \in 1..npos : i <= Len(params) /\ params[i] \in kw
    \/ \E k \in kw : k \notin Range(params)
    \/ \E i \in 1..nreq : i > npos /\ params[i] \notin kw

(* def log_trade_entry(symbol, side, order_id, filled_price, interval="1m") *)
LogTradeEntryParams == <<"symbol", "side", "order_id", "filled_price", "interval">>

(* app.py: log_trade_entry(symbol, side, avg_price, order_id=order_id, interval=interval) *)
EntryCallRaises == CallRaises(LogTradeEntryParams, 4, 3, {"order_id", "interval"})

(* def log_trade_exit(symbol, order_id, filled_price, reason="Normal Exit", interval="1m") *)
LogTradeExitParams == <<"symbol", "order_id", "filled_price", "reason", "interval">>

(* app.py: log_trade_exit(symbol, filled_price, pnl, pnl_percent, reason=, interval=, order_id=) *)
ExitCallRaises == CallRaises(LogTradeExitParams, 3, 4, {"reason", "interval", "order_id"})

----------------------------------------------------------------------------
(* Threads *)
WebT == <<"web", 1>>

Tids ==
    {WebT}
    \cup {<<"obs", o>> : o \in 1..MaxOrders}     \* wait_and_notify_filled_entry per entry order
    \cup {<<"fin", o>> : o \in 1..MaxOrders}     \* wait_and_finalize_exit per market close
    \cup {<<"tmr", a>> : a \in 1..MaxAlerts}     \* two_bar_force_exit_worker started by webhook
    \cup {<<"tmo", o>> : o \in 1..MaxOrders}     \* two_bar_force_exit_worker started by the observer
    \cup {<<"pex", n>> : n \in 1..MaxPex}        \* perform_exit started by monitor_2bar_exit
    \cup {<<"lte", n>> : n \in 1..MaxCalls}      \* a thread that calls log_trade_entry itself
    \cup {<<"rq", 1>>}                          \* a thread that calls round_quantity itself
    \cup {<<"exit", 1>>}                        \* a thread that reports one exit
    \cup {<<"sum", 1>>}                         \* send_daily_summary
    \cup {<<"adm", i>> : i \in 1..MaxEntries}    \* a request thread inside open_position
    \cup {<<"mon", 1>>}                         \* monitor_2bar_exit as a user of trades_lock

Idle ==
    [pc |-> "idle", iv |-> "", side |-> "", xside |-> "", oid |-> 0, ret |-> "", comment |-> "",
     bars |-> FALSE, start |-> 0, cnt |-> 0, unreal |-> 0, qty |-> 0,
     notified |-> FALSE, local |-> FALSE, reason |-> "", result |-> "",
     sawPos |-> FALSE, mark |-> FALSE]

IsTimer(t) == t[1] \in {"tmr", "tmo"}

Live(t) == th[t].pc # "idle"

(* the statement after a call returns: the caller's continuation, or the end of the thread *)
Return(r, res) ==
    IF r.ret = "" THEN Idle
    ELSE [r EXCEPT !.pc = r.ret, !.ret = "", !.result = res, !.qty = 0]

EntryComments == {"BUY_ENTRY", "SELL_ENTRY"}
CrossComments == {"CROSS_EXIT_SHORT", "CROSS_EXIT_LONG", "OPPOSITE_EXIT", "SAME_SIDE_EXIT"}
ExitComments == {"EXIT_LONG", "EXIT_SHORT", "SIGNAL_EXIT"}

Abs(x) == IF x < 0 THEN 0 - x ELSE x

(* "BUY" if float(positionAmt) > 0 else "SELL" *)
SideOf(p) == IF p > 0 THEN "BUY" ELSE "SELL"

CloseSide(side) == IF side = "BUY" THEN "SELL" ELSE "BUY"

FillPrice(o, executed) == 10 * o + executed

Terminal == {"FILLED", "CANCELED", "REJECTED", "EXPIRED"}

(* monitor_2bar_exit between rounds; an element of its active_trades list is a *)
(* reference to a ledger record (live) or to a record no longer in the ledger  *)
NoEntry == [key |-> SymKey(""), live |-> FALSE, val |-> EmptyDict]

MonIdle == [pc |-> "sleep", cur |-> NoEntry, rest |-> <<>>, iv |-> "", price |-> 0]

----------------------------------------------------------------------------
(* The body of a webhook request, split at "|" into stripped fields.  A       *)
(* well-formed alert has the six fields ticker, comment, close price, bar     *)
(* high, bar low, interval; it carries bar high and bar low or leaves them    *)
(* empty.                                                                     *)
Alert(c, iv, bars) ==
    <<Symbol, c, "100", IF bars THEN "101" ELSE "", IF bars THEN "99" ELSE "", iv>>

(* the strings float() accepts, among those the payloads use *)
Numerals == {"3", "100", "101", "99"}

(* INTERVAL_MAP.get(key, key), for the tokens the payloads use *)
normalize_interval(raw) ==
    CASE raw = "1" -> "1m" [] raw = "3" -> "3m" [] OTHER -> raw

(* webhook() raises while parsing: IndexError on parts[1] or parts[2], or *)
(* ValueError in float(close_price)                                      *)
ParseRaises(parts) == IF Len(parts) < 3 THEN TRUE ELSE parts[3] \notin Numerals

(* what webhook() makes of the fields: six or more fields are taken in order;  *)
(* with fewer, the interval is the last field and there is no bar high or low *)
Parsed(parts) ==
    [comment |-> parts[2],
     iv |-> normalize_interval(IF Len(parts) >= 6 THEN parts[6] ELSE parts[Len(parts)]),
     bars |-> Len(parts) >= 6 /\ parts[4] # "" /\ parts[5] # ""]

(* the payload lacks one of ticker, comment, close price, interval, or its *)
(* close price is not a number                                              *)
Malformed(parts) == IF Len(parts) < 4 THEN TRUE ELSE parts[3] \notin Numerals

(* bar high/low matter to exit-type alerts only *)
AlertInputs ==
    {Alert(c, iv, b) : c \in Comments \ EntryComments, iv \in Intervals, b \in BOOLEAN}
    \cup {Alert(c, iv, TRUE) : c \in Comments \cap EntryComments, iv \in Intervals}

(* the state after the module is imported, for the alerts of one of `scripts` *)
Begin(scripts) ==
    /\ now = 1
    /\ trades = <<>>
    /\ notified_orders = {}
    /\ orders = <<>>
    /\ pos = 0
    /\ th = [t \in Tids |-> Idle]
    /\ mon = MonIdle
    /\ alerts = 0
    /\ script \in scripts
    /\ sent = <<>>
    /\ useBar \in BOOLEAN
    /\ hist = [fillSeen |-> {}, closers |-> {}, finalized |-> {}, before |-> <<>>, malformed |-> FALSE,
            evaluated |-> {}]

(* time passes *)
Tick ==
    /\ now < MaxTime
    /\ now' = now + 1
    /\ UNCHANGED <<trades, notified_orders, orders, pos, th, mon, alerts, script, sent, useBar, hist>>

----------------------------------------------------------------------------
(* The exchange *)
OrderDelta(o, q) == IF orders[o].side = "BUY" THEN q ELSE 0 - q

PosAfter(p, o, q) == p + OrderDelta(o, q)

(* a position that returns to flat is a closed position: its closers are forgotten *)
ClosersAfter(p, c) == IF p = 0 THEN {} ELSE c

ExPartial(o) ==
    /\ o \in 1..Len(orders)
    /\ orders[o].type = "LIMIT" /\ orders[o].status = "NEW" /\ orders[o].qty > 1
    /\ orders' = [orders EXCEPT ![o].status = "PARTIALLY_FILLED", ![o].executed = 1,
                                ![o].avg = FillPrice(o, 1)]
    /\ pos' = PosAfter(pos, o, 1)
    /\ hist' = [hist EXCEPT !.closers = ClosersAfter(pos', @)]
    /\ UNCHANGED <<now, trades, notified_orders, th, mon, alerts, script, sent, useBar>>

ExFill(o) ==
    /\ o \in 1..Len(orders)
    /\ orders[o].status \in {"NEW", "PARTIALLY_FILLED"}
    /\ orders' = [orders EXCEPT ![o].status = "FILLED", ![o].executed = orders[o].qty,
                                ![o].avg = FillPrice(o, orders[o].qty)]
    /\ pos' = PosAfter(pos, o, orders[o].qty - orders[o].executed)
    /\ hist' = [hist EXCEPT !.closers = ClosersAfter(pos', @)]
    /\ UNCHANGED <<now, trades, notified_orders, th, mon, alerts, script, sent, useBar>>

ExCancel(o) ==
    /\ o \in 1..Len(orders)
    /\ orders[o].type = "LIMIT" /\ orders[o].status \in {"NEW", "PARTIALLY_FILLED"}
    /\ orders' = [orders EXCEPT ![o].status = "CANCELED"]
    /\ UNCHANGED <<now, trades, notified_orders, pos, th, mon, alerts, script, sent, useBar, hist>>

(* a market order the exchange does not execute ends EXPIRED *)
ExExpire(o) ==
    /\ o \in 1..Len(orders)
    /\ orders[o].type = "MARKET" /\ orders[o].status = "NEW"
    /\ orders' = [orders EXCEPT ![o].status = "EXPIRED"]
    /\ UNCHANGED <<now, trades, notified_orders, pos, th, mon, alerts, script, sent, useBar, hist>>

NewOrder(type, side, qty, role, iv, alert) ==
    [type |-> type, side |-> side, qty |-> qty, status |-> "NEW", executed |-> 0,
     avg |-> 0, role |-> role, iv |-> iv, alert |-> alert]

----------------------------------------------------------------------------
(* webhook() *)
Pending == 0

EntryAlertLedger(tr, k, iv, t) ==
    LET d1 == DSet(DSet(Get(tr, k), "entry_alert_received", TRUE), "bar_start_time", t)
        tr1 == Put(tr, k, d1)
        s1 == DUpdate(Get(tr1, SymKey(Symbol)),
                      [entry_alert_received |-> TRUE, bar_start_time |-> t, interval |-> iv])
    IN Put(tr1, SymKey(Symbol), s1)

(* if not trades[k].get("two_bar_thread_started") *)
TimerNotStarted(tr, k) == ~DGet(Get(tr, k), "two_bar_thread_started", FALSE)

(* every alert: trades.setdefault(k, {}); trades[k]["interval"] = interval *)
AlertLedger(tr, k, iv) == Put(tr, k, DSet(Get(tr, k), "interval", iv))

(* BUY_ENTRY / SELL_ENTRY: the alert time is recorded and the 2-bar thread is *)
(* started once; open_position follows                                        *)
ReceiveEntry ==
    /\ th[WebT].pc = "idle"
    /\ script # <<>>
    /\ ~ParseRaises(Head(script))
    /\ Parsed(Head(script)).comment \in EntryComments
    /\ alerts' = alerts + 1
    /\ script' = Tail(script)
    /\ LET iv == Parsed(Head(script)).iv
           k == trade_key(Symbol, iv)
           tr2 == EntryAlertLedger(AlertLedger(trades, k, iv), k, iv, now)
           web == [Idle EXCEPT !.pc = "op_query", !.comment = Parsed(Head(script)).comment, !.iv = iv,
                               !.side = IF Parsed(Head(script)).comment = "BUY_ENTRY" THEN "BUY" ELSE "SELL"]
       IN IF TimerNotStarted(tr2, k)
          THEN /\ trades' = Put(tr2, k, DSet(Get(tr2, k), "two_bar_thread_started", TRUE))
               /\ th' = [th EXCEPT ![WebT] = web,
                                   ![<<"tmr", alerts + 1>>] = [Idle EXCEPT !.pc = "tw_start", !.iv = iv]]
          ELSE /\ trades' = tr2
               /\ th' = [th EXCEPT ![WebT] = web]
    /\ hist' = [hist EXCEPT !.before = trades, !.malformed = Malformed(Head(script))]
    /\ UNCHANGED <<now, notified_orders, orders, pos, mon, sent, useBar>>

(* exit-type alerts go on to query the position *)
ReceiveExit ==
    /\ th[WebT].pc = "idle"
    /\ script # <<>>
    /\ ~ParseRaises(Head(script))
    /\ Parsed(Head(script)).comment \in ExitComments \cup CrossComments
    /\ alerts' = alerts + 1
    /\ script' = Tail(script)
    /\ trades' = AlertLedger(trades, trade_key(Symbol, Parsed(Head(script)).iv), Parsed(Head(script)).iv)
    /\ th' = [th EXCEPT ![WebT] =
                [Idle EXCEPT !.pc = IF Parsed(Head(script)).comment \in CrossComments THEN "wh_cross" ELSE "es_query",
                             !.comment = Parsed(Head(script)).comment, !.iv = Parsed(Head(script)).iv,
                             !.bars = Parsed(Head(script)).bars]]
    /\ hist' = [hist EXCEPT !.before = trades, !.malformed = Malformed(Head(script))]
    /\ UNCHANGED <<now, notified_orders, orders, pos, mon, sent, useBar>>

(* any other comment: {"error": "Unknown comment"} *)
ReceiveUnknown ==
    /\ th[WebT].pc = "idle"
    /\ script # <<>>
    /\ ~ParseRaises(Head(script))
    /\ Parsed(Head(script)).comment \notin EntryComments \cup ExitComments \cup CrossComments
    /\ alerts' = alerts + 1
    /\ script' = Tail(script)
    /\ trades' = AlertLedger(trades, trade_key(Symbol, Parsed(Head(script)).iv), Parsed(Head(script)).iv)
    /\ th' = [th EXCEPT ![WebT] =
                [Idle EXCEPT !.pc = "ret", !.comment = Parsed(Head(script)).comment, !.iv = Parsed(Head(script)).iv,
                             !.result = "error"]]
    /\ hist' = [hist EXCEPT !.before = trades, !.malformed = Malformed(Head(script))]
    /\ UNCHANGED <<now, notified_orders, orders, pos, mon, sent, useBar>>

(* the payload cannot be parsed: the except clause answers {"error": str(e)} *)
ReceiveMalformed ==
    /\ th[WebT].pc = "idle"
    /\ script # <<>>
    /\ ParseRaises(Head(script))
    /\ alerts' = alerts + 1
    /\ script' = Tail(script)
    /\ th' = [th EXCEPT ![WebT] = [Idle EXCEPT !.pc = "ret", !.result = "error"]]
    /\ hist' = [hist EXCEPT !.before = trades, !.malformed = TRUE]
    /\ UNCHANGED <<now, trades, notified_orders, orders, pos, mon, sent, useBar>>

----------------------------------------------------------------------------
(* the records a reset or a pop removes leave the ledger but stay referenced *)
(* by the monitor's list of active trades                                    *)
Detached(tr, ks, e) ==
    IF e.live /\ e.key \in ks /\ Has(tr, e.key)
    THEN [e EXCEPT !.live = FALSE, !.val = Get(tr, e.key)]
    ELSE e

MonDetach(m, tr, ks) ==
    [m EXCEPT !.cur = Detached(tr, ks, @),
              !.rest = [i \in 1..Len(@) |-> Detached(tr, ks, @[i])]]

AllKeys(tr) == {tr[i].key : i \in 1..Len(tr)}

(* open_position(symbol, side, limit_price, interval) *)

(* get_position_info: an existing position is closed first *)
(* get_position_info raises (its request is not guarded): the exception leaves *)
(* open_position and webhook() answers {"error": str(e)}                        *)
OpQueryRaises ==
    /\ th[WebT].pc = "op_query"
    /\ th' = [th EXCEPT ![WebT].pc = "ret", ![WebT].result = "error"]
    /\ UNCHANGED <<now, trades, notified_orders, orders, pos, mon, alerts, script, sent, useBar, hist>>

OpQuery ==
    /\ th[WebT].pc = "op_query"
    /\ th' = [th EXCEPT ![WebT] =
                IF pos # 0
                THEN [@ EXCEPT !.pc = "em_query", !.ret = "op_wait",
                               !.reason = "Replacing Entry", !.xside = SideOf(pos)]
                ELSE [@ EXCEPT !.pc = "op_count"]]
    /\ UNCHANGED <<now, trades, notified_orders, orders, pos, mon, alerts, script, sent, useBar, hist>>

(* the wait for the old position to clear ends cleared or timed out; the entry *)
(* proceeds in both cases                                                      *)
OpWait ==
    /\ th[WebT].pc = "op_wait"
    /\ th' = [th EXCEPT ![WebT].pc = "op_count", ![WebT].xside = "", ![WebT].reason = "",
                        ![WebT].result = ""]
    /\ UNCHANGED <<now, trades, notified_orders, orders, pos, mon, alerts, script, sent, useBar, hist>>

(* count_active_trades(): positions of all symbols with positionAmt # 0; a failed *)
(* request counts 0.  Positions of other symbols are an input.                    *)
OtherPositions == {0, MAX_ACTIVE_TRADES}

count_active_trades(p) == {0} \cup {(IF p # 0 THEN 1 ELSE 0) + n : n \in OtherPositions}

(* variant: an entry is turned away only above the maximum *)
AdmittedAbove(active_count) == ~(active_count > MAX_ACTIVE_TRADES)

(* if active_count >= MAX_ACTIVE_TRADES: return {"status": "max_trades_reached"} *)
Admitted(active_count) == ~(active_count >= MAX_ACTIVE_TRADES)

(* the placeholder record written before the order is sent *)
Placeholder(old, side, iv, t) ==
    LET base == [symbol |-> Symbol, side |-> side, interval |-> iv, entry_time |-> t,
                 entry_filled |-> FALSE, order_id |-> Pending, closed |-> FALSE,
                 two_bar_thread_started |-> DGet(old, "two_bar_thread_started", FALSE),
                 exit_signal_received |-> FALSE,
                 entry_alert_received |-> DGet(old, "entry_alert_received", FALSE)]
    IN IF "bar_start_time" \in DOMAIN old
       THEN DSet(base, "bar_start_time", old["bar_start_time"])
       ELSE base

(* admission check; when admitted, leverage, quantity and the placeholder *)
OpCount ==
    /\ th[WebT].pc = "op_count"
    /\ \E c \in count_active_trades(pos) :
          IF Admitted(c)
          THEN /\ th' = [th EXCEPT ![WebT].pc = "op_post", ![WebT].cnt = c]
               /\ hist' = [hist EXCEPT !.before = <<>>]
               /\ LET k == trade_key(Symbol, th[WebT].iv)
                  IN /\ trades' = Put(trades, k, Placeholder(Get(trades, k), th[WebT].side, th[WebT].iv, now))
                     /\ mon' = MonDetach(mon, trades, {k})
          ELSE /\ th' = [th EXCEPT ![WebT].pc = "ret", ![WebT].cnt = c,
                                   ![WebT].result = "max_trades_reached"]
               /\ UNCHANGED <<trades, mon, hist>>
    /\ UNCHANGED <<now, notified_orders, orders, pos, alerts, script, sent, useBar>>

(* POST LIMIT GTC accepted: the order id is stored, the fill observer started *)
OpPostAccepted ==
    /\ th[WebT].pc = "op_post"
    /\ Len(orders) < MaxOrders
    /\ LET o == Len(orders) + 1
           k == trade_key(Symbol, th[WebT].iv)
       IN /\ orders' = Append(orders, NewOrder("LIMIT", th[WebT].side, EntryQty, "entry", th[WebT].iv, alerts))
          /\ trades' = IF Has(trades, k)
                       THEN Put(trades, k, DSet(Get(trades, k), "order_id", o))
                       ELSE trades
          /\ th' = [th EXCEPT ![WebT].pc = "ret", ![WebT].result = "order", ![WebT].oid = o,
                              ![<<"obs", o>>] = [Idle EXCEPT !.pc = "fo_poll", !.iv = th[WebT].iv,
                                                            !.side = th[WebT].side, !.oid = o]]
    /\ UNCHANGED <<now, notified_orders, pos, mon, alerts, script, sent, useBar, hist>>

(* POST rejected: the placeholder is removed *)
OpPostRejected ==
    /\ th[WebT].pc = "op_post"
    /\ trades' = Pop(trades, trade_key(Symbol, th[WebT].iv))
    /\ mon' = MonDetach(mon, trades, {trade_key(Symbol, th[WebT].iv)})
    /\ th' = [th EXCEPT ![WebT].pc = "ret", ![WebT].result = "rejected"]
    /\ UNCHANGED <<now, notified_orders, orders, pos, alerts, script, sent, useBar, hist>>

(* The request is answered.  A timer that has not woken yet learns here that an *)
(* exit alert for its trade's open position has been handled (history only).    *)
FilledEntries == {o \in 1..Len(orders) : orders[o].role = "entry" /\ orders[o].executed > 0}

TradeAlert ==
    IF FilledEntries = {} THEN 0
    ELSE orders[CHOOSE o \in FilledEntries : \A q \in FilledEntries : q <= o].alert

Preempted(t) ==
    /\ th[WebT].comment \in ExitComments /\ th[WebT].sawPos
    /\ t = <<"tmr", TradeAlert>>
    /\ th[t].pc \in {"tw_start", "tw_sleep"}

WebReturn ==
    /\ th[WebT].pc = "ret"
    /\ th' = [t \in Tids |->
                IF t = WebT THEN Idle
                ELSE IF Preempted(t) THEN [th[t] EXCEPT !.mark = TRUE]
                ELSE th[t]]
    /\ hist' = [hist EXCEPT !.before = <<>>, !.malformed = FALSE]
    /\ UNCHANGED <<now, trades, notified_orders, orders, pos, mon, alerts, script, sent, useBar>>

----------------------------------------------------------------------------
(* Quantities *)
StepSize == 1
MinQty == 1

(* round_quantity(symbol, qty): floor to the step size, at least min_qty *)
round_quantity(qty) ==
    LET aligned == (qty \div StepSize) * StepSize
    IN IF aligned < MinQty THEN MinQty ELSE aligned

(* get_exit_qty(symbol) *)
get_exit_qty(p) == round_quantity(Abs(p))

----------------------------------------------------------------------------
(* Python floats.  The quantities above are counted in whole steps; the code *)
(* computes them in IEEE-754 binary64.  A float is modelled exactly as       *)
(* [m, e] with value m * 2^e, where m is a natural number of 53 bits (or 0). *)
(* Natural numbers of that size are sequences of digits in base Base, least  *)
(* significant digit first, without a leading zero digit (0 is <<>>).        *)
Base == 32768
DigitBits == 15
Precision == 53

RECURSIVE BTrim(_)
BTrim(a) == IF a = <<>> THEN <<>>
            ELSE IF a[Len(a)] = 0 THEN BTrim(SubSeq(a, 1, Len(a) - 1)) ELSE a

RECURSIVE BNat(_)
BNat(n) == IF n = 0 THEN <<>> ELSE <<n % Base>> \o BNat(n \div Base)

RECURSIVE BInt(_)
BInt(a) == IF a = <<>> THEN 0 ELSE a[1] + Base * BInt(Tail(a))

BDigit(a, i) == IF i <= Len(a) THEN a[i] ELSE 0

RECURSIVE BCmpFrom(_, _, _)
BCmpFrom(a, b, i) ==
    IF i = 0 THEN 0
    ELSE IF a[i] > b[i] THEN 1
    ELSE IF a[i] < b[i] THEN -1
    ELSE BCmpFrom(a, b, i - 1)

BCmp(a, b) ==
    IF Len(a) > Len(b) THEN 1
    ELSE IF Len(a) < Len(b) THEN -1
    ELSE BCmpFrom(a, b, Len(a))

RECURSIVE BAddC(_, _, _, _)
BAddC(a, b, i, c) ==
    IF i > Len(a) /\ i > Len(b) THEN (IF c = 0 THEN <<>> ELSE <<c>>)
    ELSE LET d == BDigit(a, i) + BDigit(b, i) + c
         IN <<d % Base>> \o BAddC(a, b, i + 1, d \div Base)

BAdd(a, b) == BAddC(a, b, 1, 0)

RECURSIVE BSubC(_, _, _, _)
BSubC(a, b, i, c) ==
    IF i > Len(a) THEN <<>>
    ELSE LET d == a[i] - BDigit(b, i) - c
         IN <<IF d < 0 THEN d + Base ELSE d>> \o BSubC(a, b, i + 1, IF d < 0 THEN 1 ELSE 0)

(* a - b for a >= b *)
BSub(a, b) == BTrim(BSubC(a, b, 1, 0))

RECURSIVE BMulSmallC(_, _, _, _)
BMulSmallC(a, d, i, c) ==
    IF i > Len(a) THEN (IF c = 0 THEN <<>> ELSE <<c>>)
    ELSE LET x == a[i] * d + c
         IN <<x % Base>> \o BMulSmallC(a, d, i + 1, x \div Base)

(* a * d for a digit d *)
BMulSmall(a, d) == IF d = 0 THEN <<>> ELSE BMulSmallC(a, d, 1, 0)

RECURSIVE BMul(_, _)
BMul(a, b) ==
    IF a = <<>> \/ b = <<>> THEN <<>>
    ELSE LET rest == BMul(a, Tail(b))
         IN BAdd(BMulSmall(a, b[1]), IF rest = <<>> THEN <<>> ELSE <<0>> \o rest)

BDouble(a) == BMulSmall(a, 2)

RECURSIVE BHalfFrom(_, _)
BHalfFrom(a, i) ==
    IF i > Len(a) THEN <<>>
    ELSE <<(a[i] \div 2) + (BDigit(a, i + 1) % 2) * (Base \div 2)>> \o BHalfFrom(a, i + 1)

BHalf(a) == BTrim(BHalfFrom(a, 1))

RECURSIVE Pow(_, _)
Pow(b, n) == IF n = 0 THEN 1 ELSE b * Pow(b, n - 1)

RECURSIVE BPow2(_)
BPow2(k) == IF k < DigitBits THEN <<Pow(2, k)>> ELSE <<0>> \o BPow2(k - DigitBits)

BShl(a, k) == BMul(a, BPow2(k))

RECURSIVE Bits(_)
Bits(n) == IF n = 0 THEN 0 ELSE 1 + Bits(n \div 2)

BitLen(a) == IF a = <<>> THEN 0 ELSE DigitBits * (Len(a) - 1) + Bits(a[Len(a)])

(* the largest digit x in lo..hi with t * x <= r, given t * lo <= r *)
RECURSIVE BQuotientDigit(_, _, _, _)
BQuotientDigit(r, t, lo, hi) ==
    IF lo = hi THEN lo
    ELSE LET mid == (lo + hi + 1) \div 2
         IN IF BCmp(BMulSmall(t, mid), r) <= 0
            THEN BQuotientDigit(r, t, mid, hi)
            ELSE BQuotientDigit(r, t, lo, mid - 1)

RECURSIVE BShiftDigits(_, _)
BShiftDigits(a, i) == IF i = 0 \/ a = <<>> THEN a ELSE <<0>> \o BShiftDigits(a, i - 1)

(* long division: the i low digits of the quotient of r by b, for r < b * Base^i *)
RECURSIVE BDivFrom(_, _, _)
BDivFrom(r, b, i) ==
    IF i = 0 THEN [q |-> <<>>, r |-> r]
    ELSE LET t == BShiftDigits(b, i - 1)
             x == BQuotientDigit(r, t, 0, Base - 1)
             rest == BDivFrom(BSub(r, BMulSmall(t, x)), b, i - 1)
         IN [q |-> rest.q \o <<x>>, r |-> rest.r]

BTrimQuotient(d) == [q |-> BTrim(d.q), r |-> d.r]

(* quotient and remainder of a by b > 0 *)
BDivMod(a, b) == BTrimQuotient(BDivFrom(a, b, IF Len(a) >= Len(b) THEN Len(a) - Len(b) + 1 ELSE 0))

(* the integer nearest to a / b, ties to the even one *)
BHalfEven(d, c) == IF c > 0 \/ (c = 0 /\ BDigit(d.q, 1) % 2 = 1) THEN BAdd(d.q, <<1>>) ELSE d.q

BRoundQuotient(d, b) == BHalfEven(d, BCmp(BDouble(d.r), b))

BDivHalfEven(a, b) == BRoundQuotient(BDivMod(a, b), b)

FZero == [m |-> <<>>, e |-> 0]

(* m * 2^e as a float, for m of Precision or Precision + 1 bits *)
FNormal(m, e) == IF BitLen(m) > Precision THEN [m |-> BHalf(m), e |-> e + 1] ELSE [m |-> m, e |-> e]

(* n / d rounded to a multiple of 2^e *)
FRoundAt(n, d, e) ==
    FNormal(BDivHalfEven(IF e < 0 THEN BShl(n, -e) ELSE n, IF e > 0 THEN BShl(d, e) ELSE d), e)

(* the exponent of the last place of n / d, which lies between 2^(e0 + 52) and 2^(e0 + 54) *)
FExponent(n, d, e0) ==
    IF BitLen(BDivMod(IF e0 < 0 THEN BShl(n, -e0) ELSE n, IF e0 > 0 THEN BShl(d, e0) ELSE d).q) > Precision
    THEN e0 + 1 ELSE e0

(* the float nearest to n / d (round to nearest, ties to even), n >= 0, d > 0 *)
RoundNearest(n, d) ==
    IF n = <<>> THEN FZero
    ELSE FRoundAt(n, d, FExponent(n, d, BitLen(n) - BitLen(d) - Precision))

(* float("k e-digits"): the float nearest to the decimal k / 10^digits *)
FDec(k, digits) == RoundNearest(BNat(k), BNat(Pow(10, digits)))

(* x * 2^e *)
FScale(x, e) == IF x.m = <<>> THEN FZero ELSE [m |-> x.m, e |-> x.e + e]

(* a / b for b # 0 *)
FDiv(a, b) == FScale(RoundNearest(a.m, b.m), a.e - b.e)

(* int(x) for x >= 0: truncation *)
FTrunc(x) ==
    IF x.e >= 0 THEN BInt(BShl(x.m, x.e)) ELSE BInt(BDivMod(x.m, BPow2(-x.e)).q)

(* float(n * b) for an int n >= 0 *)
FMulInt(n, b) == FScale(RoundNearest(BMul(BNat(n), b.m), <<1>>), b.e)

FMin(x, y) == IF x < y THEN x ELSE y

(* a < b *)
FLess(a, b) == BCmp(BShl(a.m, a.e - FMin(a.e, b.e)), BShl(b.m, b.e - FMin(a.e, b.e))) < 0

(* x * 10^ndigits rounded to an integer, ties to even *)
FDecimal(scaled, e) == IF e >= 0 THEN BShl(scaled, e) ELSE BDivHalfEven(scaled, BPow2(-e))

(* round(x, ndigits) of a float x >= 0: the decimal of ndigits places nearest to *)
(* the exact value of x (ties to even), converted back to the nearest float      *)
FRound(x, ndigits) ==
    RoundNearest(FDecimal(BMul(x.m, BNat(Pow(10, ndigits))), x.e), BNat(Pow(10, ndigits)))

(* get_symbol_info(symbol): None, or the LOT_SIZE filter of the symbol.  The  *)
(* exchange states stepSize and minQty as decimal strings; they are kept here *)
(* in thousandths.                                                            *)
None == <<>>
Digits == 3
LotSizes == {[stepSize |-> s, minQty |-> m] : s \in {0, 1, 10}, m \in {1, 5}}
SymbolInfos == {None} \cup LotSizes

(* round_quantity, lines 101-105: int(qty / step_size) * step_size, or step_size *)
(* when the division raises (step_size = 0)                                     *)
FloorQty(qty, step_size) ==
    IF step_size.m = <<>> THEN step_size
    ELSE FMulInt(FTrunc(FDiv(qty, step_size)), step_size)

(* round_quantity, lines 106-108 *)
ClampQty(qty, min_qty) == IF FLess(qty, min_qty) THEN min_qty ELSE qty

(* round_quantity(symbol, qty) on floats; info is get_symbol_info(symbol) *)
RoundQuantity(info, qty) ==
    IF DOMAIN info = {} THEN FRound(qty, 3)               \* if not info
    ELSE FRound(ClampQty(FloorQty(qty, FDec(info.stepSize, Digits)), FDec(info.minQty, Digits)), 8)

(* Thread <<"rq", 1>> holds a raw quantity (a decimal of Digits places, as in *)
(* positionAmt) and calls round_quantity on it, then again on the result.     *)
MaxRaw == 90

RqBegin(info, raw) ==
    [pc |-> "rq_call", info |-> info, raw |-> raw, qty |-> FDec(raw, Digits), once |-> FZero]

RqResult(r, qty) == [r EXCEPT !.pc = "rq_again", !.qty = qty, !.once = qty]

RqCall ==
    /\ th[<<"rq", 1>>].pc = "rq_call"
    /\ th' = [th EXCEPT ![<<"rq", 1>>] = RqResult(@, RoundQuantity(@.info, @.qty))]
    /\ UNCHANGED <<now, trades, notified_orders, orders, pos, mon, alerts, script, sent, useBar, hist>>

RqAgain ==
    /\ th[<<"rq", 1>>].pc = "rq_again"
    /\ th' = [th EXCEPT ![<<"rq", 1>>] =
                [@ EXCEPT !.pc = "rq_done",
                          !.qty = RoundQuantity(th[<<"rq", 1>>].info, th[<<"rq", 1>>].qty)]]
    /\ UNCHANGED <<now, trades, notified_orders, orders, pos, mon, alerts, script, sent, useBar, hist>>

----------------------------------------------------------------------------
(* execute_market_exit(symbol, side, reason), called by thread t *)
Callers == {t \in Tids : t[1] \in {"web", "tmr", "tmo", "pex"}}

Closer(t) ==
    IF t[1] = "web"
    THEN (IF th[t].comment \in ExitComments THEN "signal"
          ELSE IF th[t].comment \in CrossComments THEN "cross" ELSE "replace")
    ELSE IF t[1] = "pex" THEN "monitor" ELSE "timer"

(* GET positionRisk: flat -> reset_2bar_state and return; else the quantity *)
EmQuery(t) ==
    /\ t \in Callers
    /\ th[t].pc = "em_query"
    /\ IF pos = 0
       THEN /\ trades' = reset_2bar_state(trades, Symbol)
            /\ mon' = MonDetach(mon, trades, AllKeys(trades))
            /\ th' = [th EXCEPT ![t] = Return(@, "no_position")]
       ELSE /\ th' = [th EXCEPT ![t].pc = "em_post", ![t].qty = round_quantity(Abs(pos))]
            /\ UNCHANGED <<trades, mon>>
    /\ UNCHANGED <<now, notified_orders, orders, pos, alerts, script, sent, useBar, hist>>

(* POST MARKET accepted: wait_and_finalize_exit is started on the order *)
EmPostAccepted(t) ==
    /\ t \in Callers
    /\ th[t].pc = "em_post"
    /\ Len(orders) < MaxOrders
    /\ LET o == Len(orders) + 1
       IN /\ orders' = Append(orders, NewOrder("MARKET", CloseSide(th[t].xside), th[t].qty,
                                               "exit", th[t].iv, alerts))
          /\ th' = [th EXCEPT ![t] = Return(@, "order"),
                              ![<<"fin", o>>] = [Idle EXCEPT !.pc = "wf_poll", !.oid = o,
                                                            !.reason = th[t].reason]]
    /\ hist' = [hist EXCEPT !.closers = @ \cup {Closer(t)}]
    /\ UNCHANGED <<now, trades, notified_orders, pos, mon, alerts, script, sent, useBar>>

(* POST answered without an orderId: nothing is started *)
EmPostRejected(t) ==
    /\ t \in Callers
    /\ th[t].pc = "em_post"
    /\ th' = [th EXCEPT ![t] = Return(@, "rejected")]
    /\ UNCHANGED <<now, trades, notified_orders, orders, pos, mon, alerts, script, sent, useBar, hist>>

----------------------------------------------------------------------------
(* evaluate_exit_signal and the CROSS / OPPOSITE / SAME_SIDE branch of webhook *)

MarkExitSignal(tr, k) == Put(tr, k, DSet(Get(tr, k), "exit_signal_received", TRUE))

MarkAllExitSignal(tr) ==
    [i \in 1..Len(tr) |->
        IF BelongsTo(tr[i].key, Symbol)
        THEN [tr[i] EXCEPT !.val = DSet(@, "exit_signal_received", TRUE)]
        ELSE tr[i]]

(* the interval of the first ledger key of the symbol decides the record marked *)
ExitSignalLedger(tr, hint) ==
    LET key == trade_key(Symbol, FoundInterval(tr, Symbol, hint))
    IN IF Has(tr, key) THEN MarkExitSignal(tr, key) ELSE MarkAllExitSignal(tr)

(* variant: the configuration flag is not consulted *)
ExitRouteBarsOnly(bars) == IF bars THEN "ee_qty" ELSE "em_query"

(* if USE_BAR_HIGH_LOW_FOR_EXIT and bar_high and bar_low: execute_exit else execute_market_exit *)
ExitRoute(bars) == IF useBar /\ bars THEN "ee_qty" ELSE "em_query"

EsQuery ==
    /\ th[WebT].pc = "es_query"
    /\ IF pos = 0
       THEN /\ th' = [th EXCEPT ![WebT].pc = "ret", ![WebT].result = "no_position_binance"]
            /\ trades' = trades
       ELSE /\ trades' = ExitSignalLedger(trades, th[WebT].iv)
            /\ th' = [th EXCEPT ![WebT].pc = ExitRoute(th[WebT].bars), ![WebT].ret = "ret",
                                ![WebT].xside = SideOf(pos), ![WebT].reason = "Exit Signal",
                                ![WebT].sawPos = TRUE]
    /\ hist' = [hist EXCEPT !.before = IF pos = 0 THEN @ ELSE <<>>]
    /\ UNCHANGED <<now, notified_orders, orders, pos, mon, alerts, script, sent, useBar>>

WhCross ==
    /\ th[WebT].pc = "wh_cross"
    /\ IF pos = 0
       THEN /\ th' = [th EXCEPT ![WebT].pc = "ret", ![WebT].result = "no_position"]
            /\ trades' = trades
       ELSE /\ trades' = MarkAllExitSignal(trades)
            /\ th' = [th EXCEPT ![WebT].pc = ExitRoute(th[WebT].bars), ![WebT].ret = "ret",
                                ![WebT].xside = SideOf(pos), ![WebT].reason = "Cross Exit",
                                ![WebT].sawPos = TRUE]
    /\ hist' = [hist EXCEPT !.before = IF pos = 0 THEN @ ELSE <<>>]
    /\ UNCHANGED <<now, notified_orders, orders, pos, mon, alerts, script, sent, useBar>>

----------------------------------------------------------------------------
(* execute_exit: limit order at the bar high/low, market after the timeout *)

(* get_exit_qty for the limit order *)
EeQty ==
    /\ th[WebT].pc = "ee_qty"
    /\ th' = [th EXCEPT ![WebT].pc = "ee_post", ![WebT].qty = get_exit_qty(pos)]
    /\ UNCHANGED <<now, trades, notified_orders, orders, pos, mon, alerts, script, sent, useBar, hist>>

(* get_exit_qty raises (round_quantity's exchangeInfo request is not guarded): *)
(* execute_exit's except clause returns False, no order has been sent          *)
EeQtyRaises ==
    /\ th[WebT].pc = "ee_qty"
    /\ th' = [th EXCEPT ![WebT] = Return(@, "exit_error")]
    /\ UNCHANGED <<now, trades, notified_orders, orders, pos, mon, alerts, script, sent, useBar, hist>>

EePostAccepted ==
    /\ th[WebT].pc = "ee_post"
    /\ Len(orders) < MaxOrders
    /\ orders' = Append(orders, NewOrder("LIMIT", CloseSide(th[WebT].xside), th[WebT].qty,
                                         "exit", th[WebT].iv, alerts))
    /\ th' = [th EXCEPT ![WebT].pc = "ee_poll", ![WebT].oid = Len(orders) + 1, ![WebT].qty = 0]
    /\ hist' = [hist EXCEPT !.closers = @ \cup {Closer(WebT)}]
    /\ UNCHANGED <<now, trades, notified_orders, pos, mon, alerts, script, sent, useBar>>

(* no orderId: the status polls find nothing until the timeout *)
EePostRejected ==
    /\ th[WebT].pc = "ee_post"
    /\ th' = [th EXCEPT ![WebT].pc = "em_query", ![WebT].qty = 0, ![WebT].result = "limit_unfilled"]
    /\ UNCHANGED <<now, trades, notified_orders, orders, pos, mon, alerts, script, sent, useBar, hist>>

(* the poll sees FILLED: finalize_trade runs in the request thread *)
EePollFilled ==
    /\ th[WebT].pc = "ee_poll"
    /\ orders[th[WebT].oid].status = "FILLED"
    /\ th' = [th EXCEPT ![WebT].pc = "ft_start"]
    /\ UNCHANGED <<now, trades, notified_orders, orders, pos, mon, alerts, script, sent, useBar, hist>>

(* BAR_EXIT_TIMEOUT_SEC passed without FILLED ("Limit not filled ... switching to *)
(* MARKET exit"): market fallback, the limit order stays                          *)
EeTimeout ==
    /\ th[WebT].pc = "ee_poll"
    /\ orders[th[WebT].oid].status # "FILLED"
    /\ th' = [th EXCEPT ![WebT].pc = "em_query", ![WebT].oid = 0, ![WebT].result = "limit_unfilled"]
    /\ UNCHANGED <<now, trades, notified_orders, orders, pos, mon, alerts, script, sent, useBar, hist>>

----------------------------------------------------------------------------
(* wait_and_notify_filled_entry(symbol, side, order_id, interval) *)
DDel(d, f) == [x \in (DOMAIN d) \ {f} |-> d[x]]

(* the fill is written into trades[key] (when the key is there) and copied *)
(* into the plain-symbol fallback record                                   *)
FillLedger(tr, k, o, avg, exq, t) ==
    LET trade == DUpdate(Get(tr, k), [entry_filled |-> TRUE, entry_price |-> avg, entry_time |-> t,
                                      order_id |-> o, position_qty |-> exq])
        tr1 == IF Has(tr, k) THEN Put(tr, k, trade) ELSE tr
        upd == [symbol |-> DGet(trade, "symbol", "None"), side |-> DGet(trade, "side", "None"),
                entry_price |-> avg, entry_time |-> t, entry_filled |-> TRUE, order_id |-> o,
                position_qty |-> exq, interval |-> DGet(trade, "interval", "None"),
                closed |-> DGet(trade, "closed", FALSE),
                entry_alert_received |-> DGet(Get(tr1, k), "entry_alert_received", FALSE)]
        fb == DUpdate(Get(tr1, SymKey(Symbol)), upd)
    IN Put(tr1, SymKey(Symbol),
           IF "bar_start_time" \in DOMAIN Get(tr1, k)
           THEN DSet(fb, "bar_start_time", Get(tr1, k)["bar_start_time"])
           ELSE DDel(fb, "bar_start_time"))

(* the record log_trade_entry stores *)
EntryRecord(side, order_id, filled_price, iv, t) ==
    [symbol |-> Symbol, side |-> side, entry_price |-> filled_price, order_id |-> order_id,
     interval |-> iv, closed |-> FALSE, pnl |-> 0, pnl_percent |-> 0, entry_time |-> t]

(* One poll of the order.  On the first fill the ledger is updated and       *)
(* log_trade_entry is called; a call that raises ends the thread in its      *)
(* except clause, otherwise the notification is sent and the timer started.  *)
FoObserve(o) ==
    LET t == <<"obs", o>>
        k == trade_key(Symbol, th[t].iv)
    IN
    /\ o \in 1..Len(orders)
    /\ th[t].pc = "fo_poll"
    /\ IF ~th[t].notified /\ orders[o].status \in {"PARTIALLY_FILLED", "FILLED"} /\ orders[o].executed > 0
       THEN LET tr1 == FillLedger(trades, k, o, orders[o].avg, orders[o].executed, now)
            IN /\ hist' = [hist EXCEPT !.fillSeen = @ \cup {o}]
               /\ IF EntryCallRaises
                  THEN /\ trades' = tr1
                       /\ th' = [th EXCEPT ![t] = Idle]
                       /\ UNCHANGED <<notified_orders, sent, mon>>
                  ELSE LET fresh == o \notin notified_orders
                           tr2 == IF fresh
                                  THEN Put(tr1, k, EntryRecord(th[t].side, o, orders[o].avg, th[t].iv, now))
                                  ELSE tr1
                           start == TimerNotStarted(tr2, k)
                       IN /\ notified_orders' = notified_orders \cup {o}
                          /\ sent' = IF fresh THEN Append(sent, [kind |-> "entry", oid |-> o, by |-> 0])
                                     ELSE sent
                          /\ mon' = IF fresh THEN MonDetach(mon, tr1, {k}) ELSE mon
                          /\ trades' = IF start
                                       THEN Put(tr2, k, DSet(Get(tr2, k), "two_bar_thread_started", TRUE))
                                       ELSE tr2
                          /\ th' = [th EXCEPT
                                      ![t] = IF orders[o].status \in Terminal THEN Idle
                                             ELSE [@ EXCEPT !.notified = TRUE],
                                      ![<<"tmo", o>>] = IF start
                                                        THEN [Idle EXCEPT !.pc = "tw_start", !.iv = th[t].iv]
                                                        ELSE @]
       ELSE /\ orders[o].status \in Terminal
            /\ th' = [th EXCEPT ![t] = Idle]
            /\ UNCHANGED <<trades, notified_orders, sent, mon, hist>>
    /\ UNCHANGED <<now, orders, pos, alerts, script, useBar>>

----------------------------------------------------------------------------
(* trade_notifier.log_trade_entry(symbol, side, order_id, filled_price, interval), *)
(* called with a well-formed argument list by thread <<"lte", n>>.  The test of   *)
(* notified_orders and the add are separate statements outside trades_lock.       *)
EntryMsg(order_id) == [kind |-> "entry", oid |-> order_id, by |-> 0]

LteCall(n, o) ==
    /\ th[<<"lte", n>>].pc = "idle"
    /\ th' = [th EXCEPT ![<<"lte", n>>] = [Idle EXCEPT !.pc = "lte_check", !.oid = o, !.side = "BUY",
                                                       !.iv = "1m"]]
    /\ UNCHANGED <<now, trades, notified_orders, orders, pos, mon, alerts, script, sent, useBar, hist>>

(* if order_id in notified_orders: return *)
LteCheck(n) ==
    /\ th[<<"lte", n>>].pc = "lte_check"
    /\ th' = [th EXCEPT ![<<"lte", n>>].pc =
                IF th[<<"lte", n>>].oid \in notified_orders THEN "lte_done" ELSE "lte_add"]
    /\ UNCHANGED <<now, trades, notified_orders, orders, pos, mon, alerts, script, sent, useBar, hist>>

(* notified_orders.add(order_id), then trades[key] = {...} under trades_lock *)
LteAdd(n) ==
    /\ th[<<"lte", n>>].pc = "lte_add"
    /\ notified_orders' = notified_orders \cup {th[<<"lte", n>>].oid}
    /\ trades' = Put(trades, trade_key(Symbol, th[<<"lte", n>>].iv),
                     EntryRecord(th[<<"lte", n>>].side, th[<<"lte", n>>].oid,
                                 FillPrice(th[<<"lte", n>>].oid, EntryQty), th[<<"lte", n>>].iv, now))
    /\ th' = [th EXCEPT ![<<"lte", n>>].pc = "lte_send"]
    /\ UNCHANGED <<now, orders, pos, mon, alerts, script, sent, useBar, hist>>

(* send_telegram_message(msg) *)
LteSend(n) ==
    /\ th[<<"lte", n>>].pc = "lte_send"
    /\ sent' = Append(sent, EntryMsg(th[<<"lte", n>>].oid))
    /\ th' = [th EXCEPT ![<<"lte", n>>].pc = "lte_done"]
    /\ UNCHANGED <<now, trades, notified_orders, orders, pos, mon, alerts, script, useBar, hist>>

----------------------------------------------------------------------------
(* two_bar_force_exit_worker(symbol, interval_str) *)
Timers == {t \in Tids : IsTimer(t)}

(* start_time = bar_start_time or entry_time or time.time() *)
StartTime(trade, t) ==
    IF DGet(trade, "bar_start_time", 0) # 0 THEN trade["bar_start_time"]
    ELSE IF DGet(trade, "entry_time", t) # 0 THEN DGet(trade, "entry_time", t)
    ELSE t

(* variant: the worker sleeps one bar only *)
WakeTargetOneBar(start, iv) == start + interval_to_seconds(iv)

(* target = start_time + (2 * interval_seconds) *)
WakeTarget(start, iv) == start + 2 * interval_to_seconds(iv)

(* variant: the worker forces the exit whatever the profit *)
ForceExitAlways(unrealized) == TRUE

(* if unrealized < 0: force market exit, else keep the position *)
ForceExit(unrealized) == unrealized < 0

Unrealized == {0 - 1, 0, 1}

TwStart(t) ==
    /\ t \in Timers
    /\ th[t].pc = "tw_start"
    /\ LET trade == GetOr(trades, trade_key(Symbol, th[t].iv), SymKey(Symbol))
       IN th' = [th EXCEPT ![t] = IF ~Truthy(trade) THEN Idle
                                  ELSE [@ EXCEPT !.pc = "tw_sleep", !.start = StartTime(trade, now)]]
    /\ UNCHANGED <<now, trades, notified_orders, orders, pos, mon, alerts, script, sent, useBar, hist>>

(* the sleep is over: the record is read again and the flag checked *)
TwWake(t) ==
    /\ t \in Timers
    /\ th[t].pc = "tw_sleep"
    /\ now >= WakeTarget(th[t].start, th[t].iv)
    /\ LET trade == GetOr(trades, trade_key(Symbol, th[t].iv), SymKey(Symbol))
       IN th' = [th EXCEPT ![t] = IF ~Truthy(trade) \/ DGet(trade, "exit_signal_received", FALSE)
                                  THEN Idle
                                  ELSE [@ EXCEPT !.pc = "tw_eval"]]
    /\ UNCHANGED <<now, trades, notified_orders, orders, pos, mon, alerts, script, sent, useBar, hist>>

(* get_position_info: flat -> reset; else the unrealized profit decides *)
TwEval(t) ==
    /\ t \in Timers
    /\ th[t].pc = "tw_eval"
    /\ IF pos = 0
       THEN /\ trades' = reset_2bar_state(trades, Symbol)
            /\ mon' = MonDetach(mon, trades, AllKeys(trades))
            /\ th' = [th EXCEPT ![t] = Idle]
       ELSE /\ \E u \in Unrealized :
                 th' = [th EXCEPT ![t] =
                          IF ForceExit(u)
                          THEN [@ EXCEPT !.pc = "em_query", !.unreal = u, !.xside = SideOf(pos),
                                         !.reason = "2-Bar Force Exit"]
                          ELSE [@ EXCEPT !.pc = "tw_hold", !.unreal = u]]
            /\ UNCHANGED <<trades, mon>>
    /\ hist' = [hist EXCEPT !.evaluated = IF pos = 0 THEN @ ELSE @ \cup FilledEntries]
    /\ UNCHANGED <<now, notified_orders, orders, pos, alerts, script, sent, useBar>>

(* [2-BAR HOLD]: the worker ends, the position stays open *)
TwHold(t) ==
    /\ t \in Timers
    /\ th[t].pc = "tw_hold"
    /\ th' = [th EXCEPT ![t] = Idle]
    /\ UNCHANGED <<now, trades, notified_orders, orders, pos, mon, alerts, script, sent, useBar, hist>>

----------------------------------------------------------------------------
(* trade_notifier.log_trade_exit(symbol, order_id, filled_price, reason, interval) *)
(* the message shows trade['pnl'] as log_trade_exit has just computed it *)
ExitMsg(order_id, by, pnl) == [kind |-> "exit", oid |-> order_id, by |-> by, pnl |-> pnl]

(* pnl and pnl_percent carry the sign of the price difference (the factors *)
(* qty, LEVERAGE and 1/entry_price are positive)                           *)
log_trade_exit(tr, iv, filled_price) ==
    LET key == trade_key(Symbol, iv)
        trade == Get(tr, key)
    IN IF ~Truthy(trade) \/ DGet(trade, "closed", FALSE)
       THEN [tr |-> tr, sends |-> FALSE, raised |-> FALSE, pnl |-> 0]
       ELSE LET t1 == DSet(DSet(trade, "exit_price", filled_price), "closed", TRUE)
            IN IF "entry_price" \notin DOMAIN t1 \/ DGet(t1, "side", "None") = "None"
               THEN [tr |-> Put(tr, key, t1), sends |-> FALSE, raised |-> TRUE, pnl |-> 0]
               ELSE LET pnl == IF t1["side"] = "BUY" THEN filled_price - t1["entry_price"]
                               ELSE t1["entry_price"] - filled_price
                    IN [tr |-> Put(tr, key, DSet(DSet(t1, "pnl", pnl), "pnl_percent", pnl)),
                        sends |-> TRUE, raised |-> FALSE, pnl |-> pnl]

----------------------------------------------------------------------------
(* wait_and_finalize_exit and finalize_trade(symbol, reason) *)
Finalizers == {t \in Tids : t[1] \in {"fin", "web"}}

(* the poll of the market order sees FILLED *)
WfPoll(o) ==
    /\ o \in 1..Len(orders)
    /\ th[<<"fin", o>>].pc = "wf_poll"
    /\ orders[o].status = "FILLED"
    /\ th' = [th EXCEPT ![<<"fin", o>>].pc = "ft_start"]
    /\ UNCHANGED <<now, trades, notified_orders, orders, pos, mon, alerts, script, sent, useBar, hist>>

(* userTrades of the symbol: the fills so far *)
UserTrades == {o \in 1..Len(orders) : orders[o].executed > 0}

LastTrade == CHOOSE o \in UserTrades : \A q \in UserTrades : q <= o

(* the fill that opened the position a fill of order o reduces: the latest entry fill before it *)
EntryFillsBefore(o) == {q \in FilledEntries : q < o}

OpeningFill(o) == CHOOSE q \in EntryFillsBefore(o) : \A m \in EntryFillsBefore(o) : m <= q

(* realizedPnl of the fill of order o as the exchange reports it, in the unit of  *)
(* log_trade_exit's pnl (price difference; the positive factors are left out):   *)
(* zero for a fill that opens a position, the difference between the closing and *)
(* the opening fill price for a fill that closes one                             *)
RealizedPnl(o) ==
    IF orders[o].role = "entry" \/ EntryFillsBefore(o) = {} THEN 0
    ELSE IF orders[o].side = "SELL" THEN orders[o].avg - orders[OpeningFill(o)].avg
    ELSE orders[OpeningFill(o)].avg - orders[o].avg

(* trades.get(trade_key(symbol, interval), {}) or trades.get(symbol, {}) or {} *)
LocalTrade(tr, iv) == GetOr(tr, trade_key(Symbol, iv), SymKey(Symbol))

(* found_interval, then GET userTrades: a failed or empty answer resets and returns *)
FtFetch(t) ==
    /\ t \in Finalizers
    /\ th[t].pc = "ft_start"
    /\ \E ok \in BOOLEAN :
          IF ~ok \/ UserTrades = {}
          THEN /\ trades' = reset_2bar_state(trades, Symbol)
               /\ mon' = MonDetach(mon, trades, AllKeys(trades))
               /\ th' = [th EXCEPT ![t] = Return(@, "closed")]
          ELSE /\ LET interval == FoundInterval(trades, Symbol, "1m")
                  IN th' = [th EXCEPT ![t].pc = "ft_exit", ![t].iv = interval,
                                      ![t].local = Truthy(LocalTrade(trades, interval))]
               /\ UNCHANGED <<trades, mon>>
    /\ UNCHANGED <<now, notified_orders, orders, pos, alerts, script, sent, useBar, hist>>

(* the minimal record finalize_trade creates when no local trade was found *)
FallbackRecord(iv, t) ==
    [symbol |-> Symbol, side |-> orders[LastTrade].side, entry_price |-> orders[LastTrade].avg,
     order_id |-> LastTrade, interval |-> iv, closed |-> FALSE, entry_time |-> t - 1]

(* fallback record, the call of log_trade_exit, reset_2bar_state.  A call that *)
(* raises lands in the except clause, which resets as well.                    *)
FtExit(t) ==
    /\ t \in Finalizers
    /\ th[t].pc = "ft_exit"
    /\ LET key == trade_key(Symbol, th[t].iv)
           tr1 == IF th[t].local THEN trades ELSE Put(trades, key, FallbackRecord(th[t].iv, now))
       IN IF ExitCallRaises
          THEN /\ trades' = reset_2bar_state(tr1, Symbol)
               /\ sent' = sent
          ELSE LET r == log_trade_exit(tr1, th[t].iv, orders[LastTrade].avg)
               IN /\ trades' = reset_2bar_state(r.tr, Symbol)
                  /\ sent' = IF r.sends
                             THEN Append(sent, ExitMsg(DGet(LocalTrade(tr1, th[t].iv), "order_id", LastTrade),
                                                       th[t].oid, r.pnl))
                             ELSE sent
    /\ mon' = MonDetach(mon, trades, AllKeys(trades))
    /\ th' = [th EXCEPT ![t] = Return(@, "closed")]
    /\ hist' = [hist EXCEPT !.finalized = @ \cup {th[t].oid}]
    /\ UNCHANGED <<now, notified_orders, orders, pos, alerts, script, useBar>>

----------------------------------------------------------------------------
(* trade_notifier.monitor_2bar_exit and perform_exit *)
TickerPrices == {1, 99}

Entry(k) == [key |-> k, live |-> TRUE, val |-> EmptyDict]

(* the record an element of active_trades refers to *)
Val(tr, e) == IF e.live THEN Get(tr, e.key) ELSE e.val

(* active_trades = [t for t in trades.values() if not t.get("closed")] *)
ActiveTrades(tr) ==
    LET open == SelectSeq(tr, LAMBDA e : ~DGet(e.val, "closed", FALSE))
    IN [i \in 1..Len(open) |-> Entry(open[i].key)]

(* trade["symbol"], trade["entry_time"] and interval_to_seconds(interval) do not raise *)
Readable(d) ==
    /\ "symbol" \in DOMAIN d
    /\ "entry_time" \in DOMAIN d
    /\ DGet(d, "interval", "1m") # "None"

(* if elapsed < 2 * interval_sec: continue *)
TooEarly(d, t) == t - d["entry_time"] < 2 * interval_to_seconds(DGet(d, "interval", "1m"))

(* pnl_percent < 0 *)
Loss(d, price) ==
    IF d["side"] = "BUY" THEN price < d["entry_price"] ELSE d["entry_price"] < price

(* element i of the list is the first of the round to show a loss: all before *)
(* it are skipped (too early, no price, no loss) without an exception         *)
Triggers(tr, L, i, price, t) ==
    /\ i \in 1..Len(L)
    /\ \A j \in 1..(i - 1) : Readable(Val(tr, L[j]))
    /\ LET d == Val(tr, L[i])
       IN /\ Readable(d)
          /\ ~TooEarly(d, t)
          /\ "entry_price" \in DOMAIN d
          /\ DGet(d, "side", "None") # "None"
          /\ Loss(d, price)

FreePex == {n \in 1..MaxPex : th[<<"pex", n>>].pc = "idle"}

(* perform_exit is started on the record; log_trade_exit follows *)
Triggered(tr, L, i, price) ==
    [pc |-> "log", cur |-> L[i], rest |-> SubSeq(L, i + 1, Len(L)),
     iv |-> DGet(Val(tr, L[i]), "interval", "1m"), price |-> price]

PexStart(m) == [Idle EXCEPT !.pc = "pe_start", !.iv = m.iv, !.reason = "2-bar close exit"]

(* a round of the monitor up to its first loss *)
MonTrigger(i, price) ==
    /\ mon.pc = "sleep"
    /\ FreePex # {}
    /\ LET L == ActiveTrades(trades)
       IN /\ Triggers(trades, L, i, price, now)
          /\ mon' = Triggered(trades, L, i, price)
    /\ th' = [th EXCEPT ![<<"pex", CHOOSE n \in FreePex : \A m \in FreePex : n <= m>>] = PexStart(mon')]
    /\ UNCHANGED <<now, trades, notified_orders, orders, pos, alerts, script, sent, useBar, hist>>

(* log_trade_exit(symbol, trade["order_id"], current_price, ...), then the rest *)
(* of the round: up to the next loss (i > 0) or to its end (i = 0)              *)
MonLog(i, price) ==
    /\ mon.pc = "log"
    /\ LET d == Val(trades, mon.cur)
           r == log_trade_exit(trades, mon.iv, mon.price)
       IN IF "order_id" \notin DOMAIN d
          THEN /\ i = 0
               /\ mon' = MonIdle
               /\ UNCHANGED <<trades, sent, th>>
          ELSE /\ trades' = r.tr
               /\ sent' = IF r.sends THEN Append(sent, ExitMsg(d["order_id"], 0, r.pnl)) ELSE sent
               /\ IF r.raised \/ i = 0
                  THEN /\ i = 0
                       /\ mon' = MonIdle
                       /\ th' = th
                  ELSE /\ FreePex # {}
                       /\ Triggers(r.tr, mon.rest, i, price, now)
                       /\ mon' = Triggered(r.tr, mon.rest, i, price)
                       /\ th' = [th EXCEPT ![<<"pex", CHOOSE n \in FreePex : \A m \in FreePex : n <= m>>] =
                                              PexStart(mon')]
    /\ UNCHANGED <<now, notified_orders, orders, pos, alerts, script, useBar, hist>>

(* The same round in two steps.  MonList is the critical section on             *)
(* trades_lock that builds active_trades; MonRound is the loop that follows it, *)
(* outside the lock, with its ticker request: it reads the fields of the        *)
(* listed records up to the first loss or to the end of the round.  `listed`    *)
(* keeps the ledger as the critical section saw it.                             *)
MonList ==
    /\ mon.pc = "sleep"
    /\ mon' = [pc |-> "round", cur |-> NoEntry, rest |-> ActiveTrades(trades), iv |-> "", price |-> 0,
               listed |-> trades]
    /\ UNCHANGED <<now, trades, notified_orders, orders, pos, th, alerts, script, sent, useBar, hist>>

MonRound(i, price) ==
    /\ mon.pc = "round"
    /\ IF i = 0
       THEN /\ \A j \in 1..Len(mon.rest) : ~Triggers(trades, mon.rest, j, price, now)
            /\ mon' = MonIdle
            /\ th' = th
       ELSE /\ FreePex # {}
            /\ Triggers(trades, mon.rest, i, price, now)
            /\ mon' = Triggered(trades, mon.rest, i, price)
            /\ th' = [th EXCEPT ![<<"pex", CHOOSE n \in FreePex : \A m \in FreePex : n <= m>>] =
                                   PexStart(mon')]
    /\ UNCHANGED <<now, trades, notified_orders, orders, pos, alerts, script, sent, useBar, hist>>

(* perform_exit: a record that is missing or closed ends it *)
PeStart(n) ==
    /\ th[<<"pex", n>>].pc = "pe_start"
    /\ LET trade == Get(trades, trade_key(Symbol, th[<<"pex", n>>].iv))
       IN th' = [th EXCEPT ![<<"pex", n>>] =
                    IF ~Truthy(trade) \/ DGet(trade, "closed", FALSE) \/ "side" \notin DOMAIN trade
                    THEN Idle
                    ELSE [@ EXCEPT !.pc = "em_query", !.ret = "pe_close", !.xside = trade["side"]]]
    /\ UNCHANGED <<now, trades, notified_orders, orders, pos, mon, alerts, script, sent, useBar, hist>>

(* after execute_market_exit returned: trades[key]["closed"] = True *)
PeClose(n) ==
    /\ th[<<"pex", n>>].pc = "pe_close"
    /\ LET key == trade_key(Symbol, th[<<"pex", n>>].iv)
       IN trades' = IF Has(trades, key) THEN Put(trades, key, DSet(Get(trades, key), "closed", TRUE))
                    ELSE trades
    /\ th' = [th EXCEPT ![<<"pex", n>>] = Idle]
    /\ UNCHANGED <<now, notified_orders, orders, pos, mon, alerts, script, sent, useBar, hist>>

----------------------------------------------------------------------------
Exchange == \E o \in 1..MaxOrders : ExPartial(o) \/ ExFill(o) \/ ExCancel(o)

(* market orders that end without execution *)
MarketExpiry == \E o \in 1..MaxOrders : ExExpire(o)

(* orders fill whole or are cancelled *)
ExchangeWhole == \E o \in 1..MaxOrders : ExFill(o) \/ ExCancel(o)

(* an entry alert on a flat symbol *)
FirstEntry ==
    ReceiveEntry \/ OpQuery \/ OpCount \/ OpPostAccepted \/ OpPostRejected \/ WebReturn

(* what further alerts add: replacement of a position, exits, unknown comments *)
LaterAlerts ==
    \/ OpWait \/ ReceiveExit \/ ReceiveUnknown
    \/ EsQuery \/ WhCross
    \/ EeQty \/ EeQtyRaises \/ EePostAccepted \/ EePostRejected \/ EePollFilled \/ EeTimeout

Workers ==
    \/ \E t \in Callers : EmQuery(t) \/ EmPostAccepted(t) \/ EmPostRejected(t)
    \/ \E o \in 1..MaxOrders : FoObserve(o) \/ WfPoll(o)
    \/ \E t \in Timers : TwStart(t) \/ TwWake(t) \/ TwEval(t) \/ TwHold(t)
    \/ \E t \in Finalizers : FtFetch(t) \/ FtExit(t)

Monitor ==
    \/ \E p \in TickerPrices : \E i \in 1..(2 * MaxAlerts) : MonTrigger(i, p)
    \/ \E p \in TickerPrices : \E i \in 0..(2 * MaxAlerts) : MonLog(i, p)
    \/ \E n \in 1..MaxPex : PeStart(n) \/ PeClose(n)

(* The whole program: any alerts, all threads. *)
AllScripts ==
    UNION {[1..n -> AlertInputs] : n \in 0..MaxAlerts}

Init == Begin(AllScripts)

Next ==
    \/ Tick \/ Exchange \/ MarketExpiry \/ FirstEntry \/ LaterAlerts \/ Workers \/ Monitor
    \/ ReceiveMalformed \/ OpQueryRaises

Spec == Init /\ [][Next]_vars

(* One trade: a single BUY_ENTRY alert on 1m, with every worker thread and the *)
(* monitor running beside it.                                                  *)
Buy1m == Alert("BUY_ENTRY", "1m", TRUE)

TradeScripts == {<<Buy1m>>}

InitTrade == Begin(TradeScripts)

NextTrade == Tick \/ Exchange \/ FirstEntry \/ Workers \/ Monitor

SpecTrade == InitTrade /\ [][NextTrade]_vars

(* The notifier called on its own: up to MaxCalls threads call log_trade_entry *)
(* once each, with order ids that may repeat, in any interleaving.             *)
CallIds == 1..2

InitNotify == Begin({<<>>})

NextNotify ==
    \E n \in 1..MaxCalls :
        \/ \E o \in CallIds : LteCall(n, o)
        \/ LteCheck(n) \/ LteAdd(n) \/ LteSend(n)

SpecNotify == InitNotify /\ [][NextNotify]_vars

(* The PnL percent of an exit, as each of the three exit paths computes it.    *)
(* Python's `/` raises ZeroDivisionError on a zero divisor.  Prices,          *)
(* quantities and realized PnLs are drawn from powers of two (and zero), so    *)
(* that every quotient below is a whole number and exact in binary floating    *)
(* point, and round(x, 2) leaves it as it is.                                  *)
LEVERAGE == 20

Prices == {0, 1, 2, 4}

FilledPrices == {1, 2, 4}

Quantities == {0, 1, 2}

RealizedPnls == {-4, 0, 4}

Sides == {"BUY", "SELL"}

Returned(percent) == [raised |-> "", percent |-> percent]

Raised(error) == [raised |-> error, percent |-> 0]

(* trade_notifier.log_trade_exit: pnl and pnl_percent both divide by the      *)
(* record's entry_price; the quantity is TRADE_AMOUNT                          *)
ExitPercent(side, entry_price, filled_price) ==
    IF entry_price = 0 THEN Raised("ZeroDivisionError")
    ELSE Returned(((IF side = "BUY" THEN filled_price - entry_price ELSE entry_price - filled_price)
                      * 100 * LEVERAGE) \div entry_price)

(* realized_pnl / (qty * entry_price) * 100 *)
NotionalPercent(realized_pnl, qty, entry_price) ==
    IF qty * entry_price = 0 THEN Raised("ZeroDivisionError")
    ELSE Returned((realized_pnl * 100) \div (qty * entry_price))

(* trade_notifier.finalize_trade: its own percent, then log_trade_exit, whose *)
(* percent the exit message shows; an error of either ends it in its except    *)
NotifierFinalize(side, entry_price, qty, filled_price, realized_pnl) ==
    IF entry_price > 0 /\ NotionalPercent(realized_pnl, qty, entry_price).raised # ""
    THEN NotionalPercent(realized_pnl, qty, entry_price)
    ELSE ExitPercent(side, entry_price, filled_price)

(* app.finalize_trade: the guarded percent, then the log_trade_exit call that *)
(* raises TypeError on its arguments                                           *)
AppFinalize(entry_price, qty, realized_pnl) ==
    [raised |-> "TypeError",
     percent |-> IF qty > 0 /\ entry_price > 0 THEN NotionalPercent(realized_pnl, qty, entry_price).percent
                 ELSE 0]

ExitBegin(side, entry_price, qty, filled_price, realized_pnl) ==
    [pc |-> "exit_call", side |-> side, entry_price |-> entry_price, qty |-> qty,
     filled_price |-> filled_price, realized_pnl |-> realized_pnl, path |-> "", raised |-> "", percent |-> 0]

ExitResult(x, path, r) == [x EXCEPT !.pc = "exit_done", !.path = path, !.raised = r.raised, !.percent = r.percent]

ExitByLog ==
    /\ th[<<"exit", 1>>].pc = "exit_call"
    /\ th' = [th EXCEPT ![<<"exit", 1>>] =
                 ExitResult(@, "log_trade_exit", ExitPercent(@.side, @.entry_price, @.filled_price))]
    /\ UNCHANGED <<now, trades, notified_orders, orders, pos, mon, alerts, script, sent, useBar, hist>>

ExitByNotifier ==
    /\ th[<<"exit", 1>>].pc = "exit_call"
    /\ th' = [th EXCEPT ![<<"exit", 1>>] =
                 ExitResult(@, "trade_notifier.finalize_trade",
                            NotifierFinalize(@.side, @.entry_price, @.qty, @.filled_price, @.realized_pnl))]
    /\ UNCHANGED <<now, trades, notified_orders, orders, pos, mon, alerts, script, sent, useBar, hist>>

ExitByApp ==
    /\ th[<<"exit", 1>>].pc = "exit_call"
    /\ th' = [th EXCEPT ![<<"exit", 1>>] =
                 ExitResult(@, "app.finalize_trade", AppFinalize(@.entry_price, @.qty, @.realized_pnl))]
    /\ UNCHANGED <<now, trades, notified_orders, orders, pos, mon, alerts, script, sent, useBar, hist>>

(* One exit reported on its own, for every price, quantity and realized PnL *)
InitExit ==
    /\ now = 1 /\ trades = <<>> /\ notified_orders = {} /\ orders = <<>> /\ pos = 0
    /\ \E side \in Sides, entry_price \in Prices, qty \in Quantities, filled_price \in FilledPrices,
          realized_pnl \in RealizedPnls :
          th = [t \in Tids |-> IF t = <<"exit", 1>>
                               THEN ExitBegin(side, entry_price, qty, filled_price, realized_pnl) ELSE Idle]
    /\ mon = MonIdle /\ alerts = 0 /\ script = <<>> /\ sent = <<>> /\ useBar = TRUE
    /\ hist = [fillSeen |-> {}, closers |-> {}, finalized |-> {}, before |-> <<>>, malformed |-> FALSE,
            evaluated |-> {}]

NextExit == ExitByLog \/ ExitByNotifier \/ ExitByApp

SpecExit == InitExit /\ [][NextExit]_vars

(* round_quantity called on its own, for every lot size and raw quantity *)
InitRound ==
    /\ now = 1 /\ trades = <<>> /\ notified_orders = {} /\ orders = <<>> /\ pos = 0
    /\ \E info \in SymbolInfos, raw \in 0..MaxRaw :
          th = [t \in Tids |-> IF t = <<"rq", 1>> THEN RqBegin(info, raw) ELSE Idle]
    /\ mon = MonIdle /\ alerts = 0 /\ script = <<>> /\ sent = <<>> /\ useBar = TRUE
    /\ hist = [fillSeen |-> {}, closers |-> {}, finalized |-> {}, before |-> <<>>, malformed |-> FALSE,
            evaluated |-> {}]

NextRound == RqCall \/ RqAgain

SpecRound == InitRound /\ [][NextRound]_vars

(* One request with any payload, well-formed or not, and what follows from it *)
Fields == {Symbol, "BUY_ENTRY", "3", "abc", "1m"}

Payloads == UNION {[1..n -> Fields] : n \in 1..4}

PayloadScripts ==
    {<<p>> : p \in {q \in Payloads : q[1] = Symbol /\ (IF Len(q) < 2 THEN TRUE ELSE q[2] = "BUY_ENTRY")}}

InitParse == Begin(PayloadScripts)

NextParse ==
    \/ ReceiveMalformed \/ OpQueryRaises
    \/ Tick \/ ExchangeWhole \/ FirstEntry \/ Workers

SpecParse == InitParse /\ [][NextParse]_vars

(* One trade with the monitor's round in two steps, without partial fills *)
NextMonitor ==
    \/ Tick \/ ExchangeWhole \/ FirstEntry \/ Workers
    \/ MonList
    \/ \E p \in TickerPrices : \E i \in 0..(2 * MaxAlerts) : MonRound(i, p) \/ MonLog(i, p)
    \/ \E n \in 1..MaxPex : PeStart(n) \/ PeClose(n)

SpecMonitor == InitTrade /\ [][NextMonitor]_vars

(* send_daily_summary at midnight, which falls at any time of the behaviour.  *)
(* Inside trades_lock it reads t["closed"] of every record and the pnl,        *)
(* pnl_percent, symbol, side, entry_price and exit_price of every closed one:  *)
(* a missing field raises KeyError, which ends the thread (it has no except);  *)
(* otherwise the message is sent and the ledger is cleared.                    *)
SummaryFields == {"pnl", "pnl_percent", "symbol", "side", "entry_price", "exit_price"}

SummaryRaises(tr) ==
    \E i \in 1..Len(tr) :
        \/ "closed" \notin DOMAIN tr[i].val
        \/ tr[i].val["closed"] /\ ~(SummaryFields \subseteq DOMAIN tr[i].val)

SummaryMsg == [kind |-> "summary", oid |-> 0, by |-> 0, pnl |-> 0]

DailySummary ==
    /\ th[<<"sum", 1>>].pc = "idle"
    /\ IF SummaryRaises(trades)
       THEN /\ th' = [th EXCEPT ![<<"sum", 1>>].pc = "dead"]
            /\ UNCHANGED <<trades, mon, sent>>
       ELSE /\ th' = [th EXCEPT ![<<"sum", 1>>].pc = "slept"]
            /\ sent' = Append(sent, SummaryMsg)
            /\ trades' = <<>>
            /\ mon' = MonDetach(mon, trades, AllKeys(trades))
    /\ UNCHANGED <<now, notified_orders, orders, pos, alerts, script, useBar, hist>>

(* One trade, its workers and the daily summary; orders fill whole *)
NextSummary == Tick \/ ExchangeWhole \/ FirstEntry \/ Workers \/ DailySummary

SpecSummary == InitTrade /\ [][NextSummary]_vars

(* open_position called by concurrent request threads, each for an entry alert *)
(* on a symbol of its own that has no position.  The account holds positions   *)
(* of other symbols, opened by earlier entry orders.  Between the count and    *)
(* the order the thread sets leverage and margin and asks for the price; these *)
(* requests change nothing and are part of the step that posts the order.      *)
EntrySymbols == <<"ETHUSDT", "SOLUSDT", "AVAXUSDT">>

OtherSymbols == <<"ADAUSDT", "BNBUSDT", "DOGEUSDT", "LTCUSDT", "XRPUSDT">>

SymbolOrder(symbol, status, side) ==
    [type |-> "LIMIT", side |-> side, qty |-> EntryQty, status |-> status,
     executed |-> IF status = "FILLED" THEN EntryQty ELSE 0, role |-> "entry", iv |-> "1m", sym |-> symbol]

(* symbols with positionAmt # 0 *)
OpenPositions == {o \in 1..Len(orders) : orders[o].status = "FILLED"}

(* count_active_trades(): the number of open positions, or 0 when the request fails *)
ActiveCounts == {0, Cardinality(OpenPositions)}

AdmIds == 1..MaxEntries

AdmBegin(i) == [Idle EXCEPT !.pc = "op_query", !.side = "BUY", !.iv = "1m"]

(* get_position_info(symbol): no position, nothing to replace *)
AdmQuery(i) ==
    /\ th[<<"adm", i>>].pc = "op_query"
    /\ th' = [th EXCEPT ![<<"adm", i>>].pc = "op_count"]
    /\ UNCHANGED <<now, trades, notified_orders, orders, pos, mon, alerts, script, sent, useBar, hist>>

AdmCount(i) ==
    /\ th[<<"adm", i>>].pc = "op_count"
    /\ \E c \in ActiveCounts :
          IF Admitted(c)
          THEN /\ th' = [th EXCEPT ![<<"adm", i>>].pc = "op_post", ![<<"adm", i>>].cnt = c]
               /\ LET k == trade_key(EntrySymbols[i], "1m")
                  IN trades' = Put(trades, k, DSet(Placeholder(Get(trades, k), "BUY", "1m", now),
                                                   "symbol", EntrySymbols[i]))
          ELSE /\ th' = [th EXCEPT ![<<"adm", i>>].pc = "ret", ![<<"adm", i>>].cnt = c,
                                   ![<<"adm", i>>].result = "max_trades_reached"]
               /\ UNCHANGED trades
    /\ UNCHANGED <<now, notified_orders, orders, pos, mon, alerts, script, sent, useBar, hist>>

AdmPostAccepted(i) ==
    /\ th[<<"adm", i>>].pc = "op_post"
    /\ orders' = Append(orders, SymbolOrder(EntrySymbols[i], "NEW", "BUY"))
    /\ trades' = LET k == trade_key(EntrySymbols[i], "1m")
                 IN IF Has(trades, k) THEN Put(trades, k, DSet(Get(trades, k), "order_id", Len(orders) + 1))
                    ELSE trades
    /\ th' = [th EXCEPT ![<<"adm", i>>].pc = "ret", ![<<"adm", i>>].result = "order",
                        ![<<"adm", i>>].oid = Len(orders) + 1]
    /\ UNCHANGED <<now, notified_orders, pos, mon, alerts, script, sent, useBar, hist>>

AdmPostRejected(i) ==
    /\ th[<<"adm", i>>].pc = "op_post"
    /\ trades' = Pop(trades, trade_key(EntrySymbols[i], "1m"))
    /\ th' = [th EXCEPT ![<<"adm", i>>].pc = "ret", ![<<"adm", i>>].result = "rejected"]
    /\ UNCHANGED <<now, notified_orders, orders, pos, mon, alerts, script, sent, useBar, hist>>

(* the exchange fills an entry order: the symbol has a position *)
AdmFill(o) ==
    /\ o \in 1..Len(orders)
    /\ orders[o].status = "NEW"
    /\ orders' = [orders EXCEPT ![o].status = "FILLED", ![o].executed = orders[o].qty]
    /\ UNCHANGED <<now, trades, notified_orders, pos, th, mon, alerts, script, sent, useBar, hist>>

InitAdmit ==
    /\ now = 1 /\ trades = <<>> /\ notified_orders = {} /\ pos = 0
    /\ \E n \in 0..MAX_ACTIVE_TRADES :
          orders = [j \in 1..n |-> SymbolOrder(OtherSymbols[j], "FILLED", "BUY")]
    /\ th = [t \in Tids |-> IF t[1] = "adm" THEN AdmBegin(t[2]) ELSE Idle]
    /\ mon = MonIdle /\ alerts = 0 /\ script = <<>> /\ sent = <<>> /\ useBar = TRUE
    /\ hist = [fillSeen |-> {}, closers |-> {}, finalized |-> {}, before |-> <<>>, malformed |-> FALSE,
            evaluated |-> {}]

NextAdmit ==
    \/ \E i \in AdmIds : AdmQuery(i) \/ AdmCount(i) \/ AdmPostAccepted(i) \/ AdmPostRejected(i)
    \/ \E o \in 1..(MAX_ACTIVE_TRADES + MaxEntries) : AdmFill(o)

SpecAdmit == InitAdmit /\ [][NextAdmit]_vars

(* trades_lock = threading.Lock(): not reentrant.  Every use is a `with`       *)
(* block, so a thread holds the lock exactly while one of its frames is inside *)
(* a block, whichever way the block is left.  A function is the set of its     *)
(* control paths; a path is the sequence of its `with trades_lock` blocks      *)
(* (with the functions called inside the block, and whether the body can       *)
(* raise) and of its calls, outside any block, of functions that use the lock. *)
With(line, calls, raises) == [kind |-> "with", line |-> line, calls |-> calls, raises |-> raises, fn |-> ""]

Call(fn) == [kind |-> "call", line |-> 0, calls |-> <<>>, raises |-> FALSE, fn |-> fn]

(* the calls inside the block of send_daily_summary *)
SummaryCallsReset == <<"send_telegram_message", "reset_2bar_state">>

SummaryCalls == <<"send_telegram_message">>

Paths(fn) ==
    CASE fn = "reset_2bar_state" -> {<<With(169, <<>>, FALSE)>>}
      [] fn \in {"trade_key", "send_telegram_message"} -> {<<>>}
      [] fn = "finalize_trade" ->
            {<<With(195, <<>>, FALSE), Call("reset_2bar_state")>>,
             <<With(195, <<>>, FALSE), With(229, <<"trade_key">>, FALSE), With(242, <<"trade_key">>, FALSE),
               Call("reset_2bar_state")>>}
      [] fn = "execute_exit" ->
            {<<With(308, <<>>, FALSE), Call("finalize_trade")>>,
             <<With(308, <<>>, FALSE), Call("execute_market_exit")>>}
      [] fn = "execute_market_exit" -> {<<Call("reset_2bar_state")>>, <<>>}
      [] fn = "wait_and_finalize_exit" -> {<<Call("finalize_trade")>>}
      [] fn = "two_bar_force_exit_worker" ->
            {<<With(408, <<>>, FALSE)>>,
             <<With(408, <<>>, FALSE), With(425, <<>>, FALSE)>>,
             <<With(408, <<>>, FALSE), With(425, <<>>, FALSE), Call("reset_2bar_state")>>,
             <<With(408, <<>>, FALSE), With(425, <<>>, FALSE), Call("execute_market_exit")>>}
      [] fn = "open_position" ->
            {pre \o post :
                pre \in {<<>>, <<Call("execute_market_exit"), With(496, <<>>, FALSE)>>},
                post \in {<<>>, <<With(516, <<>>, FALSE), With(545, <<>>, FALSE)>>,
                          <<With(516, <<>>, FALSE), With(551, <<>>, FALSE)>>}}
      [] fn = "wait_and_notify_filled_entry" -> {<<>>, <<With(575, <<>>, FALSE)>>}
      [] fn = "evaluate_exit_signal" ->
            {<<>>, <<With(647, <<"trade_key">>, FALSE), Call("execute_exit")>>,
             <<With(647, <<"trade_key">>, FALSE), Call("execute_market_exit")>>}
      [] fn = "webhook" ->
            {<<>>, <<With(696, <<"trade_key">>, FALSE)>>,
             <<With(696, <<"trade_key">>, FALSE), With(704, <<"trade_key">>, FALSE), Call("open_position")>>,
             <<With(696, <<"trade_key">>, FALSE), With(735, <<>>, FALSE), Call("execute_exit")>>,
             <<With(696, <<"trade_key">>, FALSE), With(735, <<>>, FALSE), Call("execute_market_exit")>>,
             <<With(696, <<"trade_key">>, FALSE), Call("evaluate_exit_signal")>>}
      [] fn = "log_trade_exit" -> {<<With(94, <<>>, TRUE)>>}
      [] fn = "perform_exit" ->
            {<<With(200, <<>>, FALSE)>>,
             <<With(200, <<>>, FALSE), Call("execute_market_exit"), With(213, <<>>, FALSE)>>}
      [] fn = "monitor_2bar_exit" ->
            {<<With(225, <<>>, FALSE)>>, <<With(225, <<>>, FALSE), Call("log_trade_exit")>>}
      [] fn = "send_daily_summary" -> {<<With(285, SummaryCalls, TRUE)>>}

(* what the except clause of a function runs; functions without try have none *)
Handlers ==
    [webhook |-> <<>>, finalize_trade |-> <<Call("reset_2bar_state")>>, execute_exit |-> <<>>,
     two_bar_force_exit_worker |-> <<>>, wait_and_notify_filled_entry |-> <<>>,
     evaluate_exit_signal |-> <<>>, monitor_2bar_exit |-> <<>>]

Frame(fn, path) == [fn |-> fn, path |-> path, i |-> 1, j |-> 0]

(* the target function of each thread; MaxWorkers of the threads run at a time *)
Target(t) ==
    CASE t[1] = "web" -> "webhook"
      [] t[1] = "obs" -> "wait_and_notify_filled_entry"
      [] t[1] = "tmr" -> "two_bar_force_exit_worker"
      [] t[1] = "fin" -> "wait_and_finalize_exit"
      [] t[1] = "pex" -> "perform_exit"
      [] t[1] = "mon" -> "monitor_2bar_exit"
      [] t[1] = "sum" -> "send_daily_summary"

LockUsers == {<<k, 1>> : k \in {"web", "obs", "tmr", "fin", "pex", "mon", "sum"}}

Running(t) == th[t].pc = "run"

Top(t) == th[t].stack[Len(th[t].stack)]

Op(t) == Top(t).path[Top(t).i]

AtOp(t) == Running(t) /\ Top(t).i <= Len(Top(t).path)

(* a frame of the thread is inside a with block *)
Holds(t) == Running(t) /\ \E n \in 1..Len(th[t].stack) : th[t].stack[n].j > 0

LockFree == \A u \in LockUsers : ~Holds(u)

(* the stack after an exception: frames end up to the nearest function with a *)
(* try, whose except clause runs; without one the thread ends                 *)
RECURSIVE Unwind(_)
Unwind(stack) ==
    IF stack = <<>> THEN <<>>
    ELSE IF stack[Len(stack)].fn \in DOMAIN Handlers
         THEN Append(SubSeq(stack, 1, Len(stack) - 1),
                     Frame(stack[Len(stack)].fn, Handlers[stack[Len(stack)].fn]))
         ELSE Unwind(SubSeq(stack, 1, Len(stack) - 1))

Continue(t, stack) ==
    th' = [th EXCEPT ![t] = IF stack = <<>> THEN [pc |-> "done", stack |-> <<>>]
                            ELSE [pc |-> "run", stack |-> stack]]

Advance(stack, i, j) == [stack EXCEPT ![Len(stack)].i = i, ![Len(stack)].j = j]

OthersSame == UNCHANGED <<now, trades, notified_orders, orders, pos, mon, alerts, script, sent, useBar, hist>>

(* with trades_lock: blocks until the lock is free *)
LkAcquire(t) ==
    /\ AtOp(t) /\ Op(t).kind = "with" /\ Top(t).j = 0
    /\ LockFree
    /\ Continue(t, Advance(th[t].stack, Top(t).i, 1))
    /\ OthersSame

(* a call: inside a block, or outside any *)
LkCall(t) ==
    /\ AtOp(t)
    /\ \/ Op(t).kind = "call" /\ \E p \in Paths(Op(t).fn) :
              Continue(t, Append(Advance(th[t].stack, Top(t).i + 1, 0), Frame(Op(t).fn, p)))
       \/ Op(t).kind = "with" /\ Top(t).j \in 1..Len(Op(t).calls) /\
              \E p \in Paths(Op(t).calls[Top(t).j]) :
                 Continue(t, Append(Advance(th[t].stack, Top(t).i, Top(t).j + 1),
                                    Frame(Op(t).calls[Top(t).j], p)))
    /\ OthersSame

(* the end of the block, or a return inside it *)
LkRelease(t) ==
    /\ AtOp(t) /\ Op(t).kind = "with" /\ Top(t).j = Len(Op(t).calls) + 1
    /\ Continue(t, Advance(th[t].stack, Top(t).i + 1, 0))
    /\ OthersSame

(* an exception inside the block *)
LkRaise(t) ==
    /\ AtOp(t) /\ Op(t).kind = "with" /\ Top(t).j > 0 /\ Op(t).raises
    /\ Continue(t, Unwind(th[t].stack))
    /\ OthersSame

(* the function returns *)
LkReturn(t) ==
    /\ Running(t) /\ ~AtOp(t)
    /\ Continue(t, SubSeq(th[t].stack, 1, Len(th[t].stack) - 1))
    /\ OthersSame

InitLock ==
    /\ now = 1 /\ trades = <<>> /\ notified_orders = {} /\ orders = <<>> /\ pos = 0
    /\ \E workers \in {w \in SUBSET LockUsers : Cardinality(w) = MaxWorkers} :
       \E start \in [workers -> UNION {Paths(Target(t)) : t \in LockUsers}] :
          /\ \A t \in workers : start[t] \in Paths(Target(t))
          /\ th = [t \in Tids |-> IF t \in workers
                                   THEN [pc |-> "run", stack |-> <<Frame(Target(t), start[t])>>]
                                   ELSE Idle]
    /\ mon = MonIdle /\ alerts = 0 /\ script = <<>> /\ sent = <<>> /\ useBar = TRUE
    /\ hist = [fillSeen |-> {}, closers |-> {}, finalized |-> {}, before |-> <<>>, malformed |-> FALSE,
            evaluated |-> {}]

NextLock ==
    \E t \in LockUsers : LkAcquire(t) \/ LkCall(t) \/ LkRelease(t) \/ LkRaise(t) \/ LkReturn(t)

SpecLock == InitLock /\ [][NextLock]_vars

(* One trade and its pollers: the same alert and worker threads, on an exchange *)
(* that may also end a market order EXPIRED; the monitor finds no loss.         *)
NextPolls == Tick \/ Exchange \/ MarketExpiry \/ FirstEntry \/ Workers

SpecPolls == InitTrade /\ [][NextPolls]_vars

(* every thread, the exchange and the clock keep running: a behaviour does not *)
(* stop while a step is possible                                               *)
FairPolls == SpecPolls /\ WF_vars(NextPolls)

(* Alert sequences: the BUY_ENTRY on 1m followed by any one alert, or preceded by *)
(* an alert on 3m that opens nothing and followed by an exit-type alert on 1m.    *)
(* The worker threads run, orders fill whole, the monitor finds no loss.          *)
Stale ==
    {a \in AlertInputs : Parsed(a).iv = "3m" /\ Parsed(a).comment \notin EntryComments /\ ~Parsed(a).bars}

Closing ==
    {a \in AlertInputs : Parsed(a).iv = "1m" /\ Parsed(a).comment \in ExitComments \cup CrossComments}

AlertScripts ==
    {<<Buy1m, a>> : a \in AlertInputs}
    \cup {<<p, Buy1m, a>> : p \in Stale, a \in Closing}

InitAlerts == Begin(AlertScripts)

NextAlerts == Tick \/ ExchangeWhole \/ FirstEntry \/ LaterAlerts \/ Workers

SpecAlerts == InitAlerts /\ [][NextAlerts]_vars

----------------------------------------------------------------------------
(* Properties *)
EntryMsgs(o) == {i \in 1..Len(sent) : sent[i].kind = "entry" /\ sent[i].oid = o}

ExitMsgsBy(o) == {i \in 1..Len(sent) : sent[i].kind = "exit" /\ sent[i].by = o}

(* C1: every entry order whose fill the observer has seen has exactly one entry *)
(* notification.                                                               *)
C1_OneEntryNotificationPerFill ==
    \A o \in hist.fillSeen : Cardinality(EntryMsgs(o)) = 1

(* C2: every close order confirmed FILLED and finalized by finalize_trade has *)
(* exactly one exit notification, sent by that finalize_trade.                *)
C2_OneExitNotificationPerClose ==
    \A o \in hist.finalized : Cardinality(ExitMsgsBy(o)) = 1

(* C3: every exit notification is preceded by the entry notification of the *)
(* same trade.                                                              *)
C3_ExitAfterEntryNotification ==
    \A i \in 1..Len(sent) :
        sent[i].kind = "exit" =>
            \E j \in 1..(i - 1) : sent[j].kind = "entry" /\ sent[j].oid = sent[i].oid

(* C4: a ledger record is marked closed only after an exit order has been *)
(* confirmed FILLED.                                                      *)
C4_ClosedOnlyAfterFilledExit ==
    \A i \in 1..Len(trades) :
        DGet(trades[i].val, "closed", FALSE) =>
            \E o \in 1..Len(orders) : orders[o].role = "exit" /\ orders[o].status = "FILLED"

(* C5: a timer that was still asleep when the handling of an exit alert for its *)
(* trade's open position completed never gets past its flag check: it neither  *)
(* evaluates the position nor submits a close order.                           *)
C5_HandledExitStopsTimer ==
    \A t \in Timers :
        th[t].mark => th[t].pc \notin {"tw_eval", "tw_hold", "em_query", "em_post"}

(* C6: for one open position, at most one of the exit-signal handler and the *)
(* timer submits a close order.                                              *)
C6_SignalAndTimerExclusive ==
    ~({"signal", "timer"} \subseteq hist.closers)

(* C7 as stated: a timer that finds no exit signal and a nonzero position goes *)
(* on to the market close whatever the unrealized profit: it never holds.      *)
C7_TimerAlwaysCloses ==
    \A t \in Timers : th[t].pc # "tw_hold"

(* C7: a timer that finds no exit signal and a nonzero position submits the *)
(* market close exactly when the unrealized profit is negative; with a      *)
(* profit of zero or more it holds the position.                            *)
C7_TimerClosesOnLossOnly ==
    \A t \in Timers :
        /\ th[t].pc \in {"em_query", "em_post"} => th[t].unreal < 0
        /\ th[t].pc = "tw_hold" => th[t].unreal >= 0

C7_TimerClosingOnLoss ==
    \E t \in Timers : th[t].pc = "em_post" /\ th[t].unreal < 0 /\ pos # 0

(* C8: at most one timer is live per (symbol, interval) key. *)
C8_OneTimerPerKey ==
    \A iv \in Intervals : Cardinality({t \in Timers : Live(t) /\ th[t].iv = iv}) <= 1

(* C9 as stated: a timer evaluates a filled trade no earlier than two intervals *)
(* after the fill time (entry_time) of its record.                              *)
C9_TwoBarsAfterFill ==
    \A t \in Timers :
        th[t].pc = "tw_eval" =>
            LET trade == GetOr(trades, trade_key(Symbol, th[t].iv), SymKey(Symbol))
            IN DGet(trade, "entry_filled", FALSE) =>
                  now >= trade["entry_time"] + 2 * interval_to_seconds(th[t].iv)

(* C9: a timer evaluates no earlier than two intervals after the start time it *)
(* read when it started: the bar_start_time of the record (the time of the     *)
(* entry alert), or the record's entry_time when it has no bar_start_time.     *)
C9_TwoBarsAfterStartTime ==
    \A t \in Timers :
        th[t].pc \in {"tw_eval", "tw_hold"} =>
            now >= th[t].start + 2 * interval_to_seconds(th[t].iv)

C9_TimerWokeOnTarget ==
    \E t \in Timers :
        LET trade == Get(trades, trade_key(Symbol, th[t].iv))
        IN /\ th[t].pc = "tw_eval"
           /\ now = th[t].start + 2 * interval_to_seconds(th[t].iv)
           /\ DGet(trade, "bar_start_time", 0) = th[t].start
           /\ DGet(trade, "entry_filled", FALSE)
           /\ trade["entry_time"] > th[t].start

(* C10: with count_active_trades() >= MAX_ACTIVE_TRADES open_position returns *)
(* max_trades_reached without placing an entry order or starting an observer. *)
EntryOrdersOf(a) == {o \in 1..Len(orders) : orders[o].alert = a /\ orders[o].role = "entry"}

C10_MaxTradesBlocksEntry ==
    /\ th[WebT].pc = "op_post" => th[WebT].cnt < MAX_ACTIVE_TRADES
    /\ (th[WebT].comment \in EntryComments /\ th[WebT].cnt >= MAX_ACTIVE_TRADES) =>
          /\ th[WebT].pc = "ret"
          /\ th[WebT].result = "max_trades_reached"
          /\ EntryOrdersOf(alerts) = {}
          /\ \A o \in 1..MaxOrders : Live(<<"obs", o>>) => o \in 1..Len(orders) /\ orders[o].alert < alerts

C10_EntryTurnedAway ==
    /\ th[WebT].pc = "ret"
    /\ th[WebT].result = "max_trades_reached"
    /\ th[WebT].cnt = MAX_ACTIVE_TRADES
    /\ pos = 0

(* the ledger keys of the symbol: the interval keys and the plain symbol key *)
SymbolKeys(tr) == {k \in AllKeys(tr) : BelongsTo(k, Symbol)}

(* C11: when open_position turns an entry alert away with max_trades_reached, *)
(* the ledger holds, as the request is answered, no key of the symbol that    *)
(* was not there when the alert arrived.                                      *)
C11_RejectedEntryAddsNoRecord ==
    (th[WebT].pc = "ret" /\ th[WebT].result = "max_trades_reached") =>
        SymbolKeys(trades) \subseteq SymbolKeys(hist.before)

(* C12: when the exchange rejects the entry limit order, open_position returns *)
(* the rejection with no record left under trade_key(symbol, interval), no     *)
(* entry order of this alert on the exchange and no fill observer started for  *)
(* it.                                                                         *)
C12_RejectionRemovesPlaceholder ==
    (th[WebT].pc = "ret" /\ th[WebT].result = "rejected" /\ th[WebT].comment \in EntryComments) =>
        /\ ~Has(trades, trade_key(Symbol, th[WebT].iv))
        /\ EntryOrdersOf(alerts) = {}
        /\ \A o \in 1..MaxOrders : Live(<<"obs", o>>) => o \in 1..Len(orders) /\ orders[o].alert < alerts

C12_EntryOrderRejected ==
    /\ th[WebT].pc = "ret"
    /\ th[WebT].result = "rejected"
    /\ th[WebT].comment \in EntryComments
    /\ Has(trades, SymKey(Symbol))

(* entry orders of a key, and those still working on the exchange *)
EntryOrdersOfKey(iv) == {o \in 1..Len(orders) : orders[o].role = "entry" /\ orders[o].iv = iv}

Working(o) == orders[o].status \in {"NEW", "PARTIALLY_FILLED"}

(* C13: at the step in which open_position submits an entry order for a key, *)
(* no earlier entry order of that key is still working or being observed,    *)
(* and no position opened by an earlier entry order of that key is open.     *)
C13_OneActiveTradePerKey ==
    [][(Len(orders') > Len(orders) /\ orders'[Len(orders')].role = "entry") =>
          LET earlier == EntryOrdersOfKey(orders'[Len(orders')].iv)
          IN /\ \A o \in earlier : ~Working(o) /\ ~Live(<<"obs", o>>)
             /\ (\E o \in earlier : orders[o].executed > 0) => pos = 0]_vars

(* the interval keys f"{symbol}_{interval}" of the ledger *)
IntervalKeys(tr) == {k \in AllKeys(tr) : StartsWithSym(k, Symbol)}

(* C14: a request that ends with no order (unknown comment, or an exit-type *)
(* alert that found the exchange position flat) leaves the ledger as it     *)
(* found it; in particular the ledger has, as the request is answered, no   *)
(* interval key that was not there when the alert arrived.                  *)
C14_NoOrderAlertLeavesLedger ==
    (/\ th[WebT].pc = "ret"
     /\ th[WebT].result \in {"error", "no_position_binance", "no_position"}
     /\ ~th[WebT].sawPos) =>
        IntervalKeys(trades) \subseteq IntervalKeys(hist.before)

(* the limit close orders placed for alert number a *)
LimitExitsOf(a) ==
    {o \in 1..Len(orders) : orders[o].role = "exit" /\ orders[o].type = "LIMIT" /\ orders[o].alert = a}

InExecuteExit(t) == th[t].pc \in {"ee_qty", "ee_post", "ee_poll"}

(* C15 as stated: a CROSS_EXIT_*, OPPOSITE_EXIT or SAME_SIDE_EXIT alert never *)
(* enters the limit attempt and no limit close order is placed for it.        *)
C15_CrossExitNeverLimit ==
    th[WebT].comment \in CrossComments =>
        ~InExecuteExit(WebT) /\ LimitExitsOf(alerts) = {}

(* C15: for a CROSS_EXIT_*, OPPOSITE_EXIT or SAME_SIDE_EXIT alert on an open  *)
(* position the limit attempt is made exactly when USE_BAR_HIGH_LOW_FOR_EXIT  *)
(* is set and the alert carries bar high and bar low; the market close is     *)
(* then the fallback of the unfilled limit attempt, and otherwise is          *)
(* submitted directly.                                                        *)
C15_CrossExitLimitWhenConfigured ==
    th[WebT].comment \in CrossComments =>
        /\ InExecuteExit(WebT) => useBar /\ th[WebT].bars
        /\ LimitExitsOf(alerts) # {} => useBar /\ th[WebT].bars
        /\ th[WebT].pc \in {"em_query", "em_post"} =>
              (th[WebT].result = "limit_unfilled" <=> useBar /\ th[WebT].bars)

C15_CrossExitTryingLimit ==
    /\ th[WebT].comment \in CrossComments
    /\ th[WebT].pc = "ee_poll"
    /\ LimitExitsOf(alerts) # {}
    /\ pos # 0

(* C16: a request that went through execute_exit ends with the limit close  *)
(* confirmed FILLED and finalized, or with a market close order submitted   *)
(* (accepted or answered without an orderId), or with the position found    *)
(* flat by the market step: it never ends on a failure of the limit attempt *)
(* alone.                                                                   *)
C16_LimitFailureEndsInMarketClose ==
    (th[WebT].pc = "ret" /\ th[WebT].sawPos /\ useBar /\ th[WebT].bars) =>
        th[WebT].result \in {"closed", "order", "rejected", "no_position"}

(* thread t leaves finalize_trade in this step *)
FinalizeReturns(t) ==
    th[t].pc \in {"ft_start", "ft_exit"} /\ th'[t].pc \notin {"ft_start", "ft_exit"}

(* C17: at every return of finalize_trade (trade fetch failed, empty trade  *)
(* list, log_trade_exit returned or raised) the ledger holds no key equal   *)
(* to the symbol and no key starting with symbol + "_".                     *)
C17_FinalizeLeavesNoSymbolKeys ==
    [][(\E t \in Finalizers : FinalizeReturns(t)) => SymbolKeys(trades') = {}]_vars

C17_FinalizedInRequest ==
    /\ th[WebT].pc = "ret"
    /\ th[WebT].result = "closed"
    /\ hist.finalized # {}
    /\ SymbolKeys(trades) = {}

(* C18: a poller whose order has reached a terminal status (FILLED, CANCELED, *)
(* REJECTED, EXPIRED) can take the step that ends its polling.  A terminal    *)
(* status never changes, so a poller that cannot take that step polls for     *)
(* ever.                                                                      *)
C18_PollersStopOnTerminal ==
    \A o \in 1..Len(orders) :
        orders[o].status \in Terminal =>
            /\ th[<<"obs", o>>].pc = "fo_poll" => ENABLED FoObserve(o)
            /\ th[<<"fin", o>>].pc = "wf_poll" => ENABLED WfPoll(o)

(* C19: every exit notification reports the realizedPnl the exchange reports *)
(* for the most recent fill of the symbol.                                   *)
C19_ExitReportsRealizedPnl ==
    [][(Len(sent') > Len(sent) /\ sent'[Len(sent')].kind = "exit") =>
          sent'[Len(sent')].pnl = RealizedPnl(LastTrade)]_vars

(* C20: a call of a notifier operation changes nothing in the ledger; in     *)
(* particular the step in which monitor_2bar_exit's call of log_trade_exit   *)
(* sends its message leaves every ledger record as it was.                   *)
C20_NotifierLeavesLedger ==
    [][(/\ mon.pc = "log"
        /\ Len(sent') > Len(sent)
        /\ sent'[Len(sent')].kind = "exit"
        /\ sent'[Len(sent')].by = 0) => trades' = trades]_vars

(* the record under k is in the entry-filled state *)
FilledRecord(tr, k) ==
    /\ Has(tr, k)
    /\ DGet(Get(tr, k), "entry_filled", FALSE)
    /\ "entry_price" \in DOMAIN Get(tr, k)

(* C21: while a position is open, a step that finds the record of a key in the *)
(* entry-filled state and leaves it in that state changes neither its          *)
(* entry_price nor its entry_time.                                             *)
C21_EntryFieldsWriteOnce ==
    [][\A iv \in Intervals :
          LET k == trade_key(Symbol, iv)
          IN (FilledRecord(trades, k) /\ FilledRecord(trades', k) /\ pos # 0 /\ pos' # 0) =>
                /\ Get(trades', k)["entry_price"] = Get(trades, k)["entry_price"]
                /\ Get(trades', k)["entry_time"] = Get(trades, k)["entry_time"]]_vars

(* the calls of log_trade_entry with order id o that are under way / have returned *)
CallsInside(o) ==
    {n \in 1..MaxCalls : th[<<"lte", n>>].oid = o /\ th[<<"lte", n>>].pc \in {"lte_check", "lte_add", "lte_send"}}

CallsReturned(o) == {n \in 1..MaxCalls : th[<<"lte", n>>].oid = o /\ th[<<"lte", n>>].pc = "lte_done"}

(* C22: whatever the number and interleaving of the calls of log_trade_entry *)
(* with one order id, at most one entry notification is sent for it, and     *)
(* once all of them have returned exactly one has been sent.                 *)
C22_OneNotificationPerOrderId ==
    \A o \in CallIds :
        /\ Cardinality(EntryMsgs(o)) <= 1
        /\ (CallsReturned(o) # {} /\ CallsInside(o) = {}) => Cardinality(EntryMsgs(o)) = 1

(* the thread that calls round_quantity has made the first call / both calls *)
Rq == th[<<"rq", 1>>]

RqCalled == Rq.pc \in {"rq_again", "rq_done"}

(* C23: round_quantity applied to its own result returns that result, for every *)
(* lot size (or no symbol metadata) and every raw quantity.                     *)
C23_RoundQuantityIdempotent ==
    Rq.pc = "rq_done" => Rq.qty = Rq.once

(* floor-to-step of the raw quantity, clamped up to minQty, in thousandths *)
FloorToStep(info, raw) ==
    LET floored == (raw \div info.stepSize) * info.stepSize
    IN IF floored < info.minQty THEN info.minQty ELSE floored

(* C24: with symbol metadata and a raw quantity q >= 0, round_quantity returns *)
(* the largest multiple of stepSize that is at most q, or minQty if that is    *)
(* smaller, and never a value below minQty.                                    *)
C24_RoundQuantityFloorsToStep ==
    (RqCalled /\ DOMAIN Rq.info # {} /\ Rq.info.stepSize > 0) =>
        /\ Rq.once = FDec(FloorToStep(Rq.info, Rq.raw), Digits)
        /\ ~FLess(Rq.once, FDec(Rq.info.minQty, Digits))

(* C25: while the request of a malformed payload (fewer fields than ticker,    *)
(* comment, close price, interval, or a close price that is not a number) is   *)
(* handled, the ledger is as the request found it, the handler makes no        *)
(* exchange call, and the answer is the error body; a handler's exception is   *)
(* answered with the error body too.                                           *)
C25_MalformedPayloadAnsweredWithError ==
    hist.malformed =>
        /\ th[WebT].pc = "ret"
        /\ th[WebT].result = "error"
        /\ trades = hist.before

(* C26: the step in which the observer of entry order o first sees it filled *)
(* leaves the ledger record of the order's key entry-filled, with the        *)
(* reported average price and executed quantity.                             *)
C26_FirstFillRecorded ==
    [][\A o \in 1..MaxOrders :
          (o \notin hist.fillSeen /\ o \in hist'.fillSeen) =>
              LET k == trade_key(Symbol, th[<<"obs", o>>].iv)
              IN /\ FilledRecord(trades', k)
                 /\ Get(trades', k)["entry_price"] = orders[o].avg
                 /\ Get(trades', k)["position_qty"] = orders[o].executed]_vars

(* thread t submits a close order in this step *)
SubmitsClose(t) ==
    /\ th[t].pc \in {"em_post", "ee_post"}
    /\ Len(orders') > Len(orders)
    /\ th'[t].pc # th[t].pc

(* some record of the symbol is in the entry-filled state *)
EntryFilled(tr) == \E k \in SymbolKeys(tr) : DGet(Get(tr, k), "entry_filled", FALSE)

(* C27: when the force-exit timer or the exit-signal handler submits a close *)
(* order, a ledger record of the symbol is in the entry-filled state.        *)
C27_ClosersActOnFilledRecord ==
    [][\A t \in Callers :
          (SubmitsClose(t) /\ Closer(t) \in {"timer", "signal"}) => EntryFilled(trades)]_vars

(* C28: once the fill of entry order o has been observed, a force-exit worker *)
(* eventually evaluates the position the order opened, unless the position is *)
(* closed first.                                                              *)
C28_FilledTradeEvaluated ==
    \A o \in 1..MaxOrders : (o \in hist.fillSeen) ~> (o \in hist.evaluated \/ pos = 0)

(* the fields monitor_2bar_exit reads of every record it examines *)
MonitorReads(d) ==
    [symbol |-> DGet(d, "symbol", "None"), interval |-> DGet(d, "interval", "None"),
     entry_time |-> DGet(d, "entry_time", 0)]

(* C29: what the monitor reads of the first record of its list is what the      *)
(* record held inside the critical section in which the list was built: no read *)
(* of a record's fields happens after trades_lock was released.                 *)
C29_MonitorReadsUnderLock ==
    [][(mon.pc = "round" /\ mon'.pc # "round" /\ Len(mon.rest) > 0) =>
          MonitorReads(Val(trades, mon.rest[1])) = MonitorReads(Val(mon.listed, mon.rest[1]))]_vars

Exit == th[<<"exit", 1>>]

(* the entry price or, on the paths that read a quantity from the exchange, *)
(* the quantity is not positive                                              *)
ZeroCase(x) == x.entry_price <= 0 \/ (x.path # "log_trade_exit" /\ x.qty <= 0)

(* C30: an exit whose entry price or quantity is not positive is reported with *)
(* a PnL percent of 0, and no exit path raises a division error on it.         *)
C30_PercentGuardedAgainstZero ==
    (Exit.pc = "exit_done" /\ ZeroCase(Exit)) => (Exit.raised # "ZeroDivisionError" /\ Exit.percent = 0)

(* entry order o is pending, or it opened the position that is open now *)
ActiveEntry(o) ==
    /\ o \in 1..Len(orders)
    /\ orders[o].role = "entry"
    /\ \/ orders[o].status \in {"NEW", "PARTIALLY_FILLED"}
       \/ /\ orders[o].executed > 0
          /\ pos # 0
          /\ \A p \in (o + 1)..Len(orders) : orders[p].role = "entry" => orders[p].executed = 0

(* C31: no step removes the ledger record of a trade whose entry order is *)
(* pending or whose position is open.                                      *)
C31_ActiveRecordKept ==
    [][\A o \in 1..MaxOrders :
          (ActiveEntry(o) /\ Has(trades, trade_key(Symbol, orders[o].iv))) =>
              Has(trades', trade_key(Symbol, orders[o].iv))]_vars

(* what is left to execute of the close orders 1..n that are live on the exchange *)
RECURSIVE LiveCloseQty(_)
LiveCloseQty(n) ==
    IF n = 0 THEN 0
    ELSE LiveCloseQty(n - 1) +
         (IF orders[n].role = "exit" /\ orders[n].status \in {"NEW", "PARTIALLY_FILLED"}
          THEN orders[n].qty - orders[n].executed ELSE 0)

(* C32: the close orders of this program that are live on the exchange never *)
(* ask for more than what is left of the position.                            *)
C32_CloseOrdersWithinPosition == LiveCloseQty(Len(orders)) <= Abs(pos)

(* entry orders that are filled (a symbol with an open position) or accepted *)
(* and not filled yet                                                         *)
ActiveEntries == {o \in 1..Len(orders) : orders[o].role = "entry" /\ orders[o].status \in {"NEW", "FILLED"}}

(* C33: open positions and accepted, unfilled entry orders together never *)
(* exceed MAX_ACTIVE_TRADES.                                               *)
C33_ActiveTradesWithinMaximum == Cardinality(ActiveEntries) <= MAX_ACTIVE_TRADES

(* the thread is at a with block it has not entered *)
AtAcquire(t) == AtOp(t) /\ Op(t).kind = "with" /\ Top(t).j = 0

(* C34: no thread comes to a with block of trades_lock while it holds the  *)
(* lock; the thread that holds the lock can always take its next step, and *)
(* while any thread is running some thread can take a step: no deadlock.   *)
C34_NoDeadlockOnTradesLock ==
    /\ \A t \in LockUsers : AtAcquire(t) => ~Holds(t)
    /\ \A t \in LockUsers :
          Holds(t) => ENABLED (LkCall(t) \/ LkRelease(t) \/ LkRaise(t) \/ LkReturn(t))
    /\ (\E t \in LockUsers : Running(t)) => ENABLED NextLock

(* one thread is inside a call made in its block while another waits at a block *)
C34_WaitsForHolderInCall ==
    \E t, u \in LockUsers :
        /\ t # u
        /\ Holds(t) /\ Len(th[t].stack) > 1 /\ Top(t).fn = "send_telegram_message"
        /\ AtAcquire(u)

====
